---- MODULE Spec2Model ----
(***************************************************************************)
(* Fantasy Pet League Discord bot: the adoption-detection and point-award  *)
(* pipeline (bot.js runCheck / detectChanges, lib/PointsManager.js,         *)
(* lib/Database.js, lib/StateManager.js) as a state machine.               *)
(*                                                                         *)
(* Two specifications live in this module:                                 *)
(*   Spec      the running bot: check cycles executed one statement at a   *)
(*             time, interleaved with ingestion, user draft actions,       *)
(*             I/O faults and process crashes followed by restart;         *)
(*   DiffSpec  detectChanges applied to every pair of bounded pet lists.   *)
(***************************************************************************)
EXTENDS Integers, Sequences, FiniteSets, TLC

\* ------------------------------------------------------------------------
\* Bounds of the model
\* ------------------------------------------------------------------------
NumPets == 2
NumUsers == 1
MaxCrashes == 1
MaxFaults == 1
MaxChecks == 2
DiffOthers == 1
MaxInterleaved == 1
MaxDrains == 2
MaxQueued == 2
StartClock == 8445
MaxClock == 8465
ClockStep == 5
MaxClaimOps == 2

\* ------------------------------------------------------------------------
\* Value domains
\* ------------------------------------------------------------------------
NULL == "<null>"
STOCK_PHOTO == "https://24petconnect.com/Content/Images/No_pic_t.jpg"
REAL_PHOTO == "photo.jpg"
ROSTER_LIMIT == 10
intervalMinutes == 15
maxAttempts == 10
freshnessDays == 4
MINUTES_PER_DAY == 1440
WINDOW_START_HOUR == 9
WINDOW_END_HOUR == 21

PetIds == 1..NumPets
Users == 1..NumUsers
Leagues == {"leagueX"}
Channels == {"chan1"}
Statuses == {"available", "removed"}
Names == {NULL, "", "Buddy"}
Photos == {NULL, "", STOCK_PHOTO, REAL_PHOTO}

\* discord_channel_config joined with leagues (Database.getAllChannelConfigs)
channelConfigs == [c \in Channels |-> "leagueX"]

\* breed of each pet and the breed_points table (a breed without a row
\* is worth 1 point)
BreedOf(p) == IF p % 2 = 1 THEN "labrador" ELSE "mixed"
breed_points == [b \in {"labrador"} |-> 3]

PetRow(id, st, nm, ph, ap, dp) ==
  [pet_id |-> id, status |-> st, name |-> nm, photo_url |-> ph,
   discord_available_posted |-> ap, discord_adopted_posted |-> dp]

\* ------------------------------------------------------------------------
\* Variables
\* ------------------------------------------------------------------------
VARIABLES
  pets,                 \* table pets: function from a subset of PetIds to rows
  roster_entries,       \* table roster_entries: set of [user_id, league_id, pet_id]
  points,               \* table points: sequence of score records (append-only)
  leaderboard_cache,    \* table leaderboard_cache: set of [league_id, user_id, total_points]
  discord_queue_items,  \* table discord_queue_items: sequence of queue items
  state,                \* StateManager.state of the running process
  stateFile,            \* bot_state.json on disk (NoFile when missing)
  rc,                   \* the check cycle in progress (runCheck and its callees)
  buttons,              \* live draft-button collectors of pet-lookup replies
  hist,                 \* history: counters bounding the run, ghost records, debug channel
  diffPrev, diffCurr, diffOut,  \* DiffSpec: inputs and result of detectChanges
  now,                  \* the wall clock, in minutes
  emitted,              \* the announcements sent to Discord, in order
  qc,                   \* the queue-drain cycle in progress (processQueues)
  rc2,                  \* a second invocation of runCheck, suspended at an await
  qc2,                  \* a second invocation of processQueues, suspended at an await
  cl,                   \* claim operations suspended between their checks and the insert
  ref,                  \* the outcome of the uninterrupted cycles, for comparison
  wr                    \* the writeFile calls of state.save() in progress

dbvars == <<pets, roster_entries, points, leaderboard_cache, discord_queue_items>>
procvars == <<state, stateFile, rc, buttons, hist>>
diffvars == <<diffPrev, diffCurr, diffOut>>
queuevars == <<now, emitted, qc>>
sidevars == <<rc2, qc2, cl, ref, wr>>
vars == <<pets, roster_entries, points, leaderboard_cache, discord_queue_items,
          state, stateFile, rc, buttons, hist, diffPrev, diffCurr, diffOut,
          now, emitted, qc, rc2, qc2, cl, ref, wr>>

\* ------------------------------------------------------------------------
\* Diff Engine: bot.js detectChanges
\* ------------------------------------------------------------------------
\* JavaScript truthiness of a nullable string: null and '' are falsy
Falsy(s) == s = NULL \/ s = ""

\* new Map(list.map(p => [p.pet_id, p])): has / get (the last entry of a key wins)
MapHas(list, id) == \E i \in 1..Len(list) : list[i].pet_id = id
MapGet(list, id) ==
  list[CHOOSE i \in 1..Len(list) :
         /\ list[i].pet_id = id
         /\ \A j \in (i+1)..Len(list) : list[j].pet_id # id]

\* the entries of the Map in iteration order: one per key, at the position
\* of the key's first insertion, carrying the key's last value
RECURSIVE MapEntriesFrom(_, _)
MapEntriesFrom(list, i) ==
  IF i > Len(list) THEN <<>>
  ELSE IF \E j \in 1..(i-1) : list[j].pet_id = list[i].pet_id
       THEN MapEntriesFrom(list, i + 1)
       ELSE <<MapGet(list, list[i].pet_id)>> \o MapEntriesFrom(list, i + 1)
MapEntries(list) == MapEntriesFrom(list, 1)

\* variant: one missing field is enough to count as incomplete
wasIncomplete_either(prevPet) ==
  \/ Falsy(prevPet.name)
  \/ (Falsy(prevPet.photo_url) \/ prevPet.photo_url = STOCK_PHOTO)

wasIncomplete(prevPet) ==
  /\ Falsy(prevPet.name)
  /\ (Falsy(prevPet.photo_url) \/ prevPet.photo_url = STOCK_PHOTO)

isNowComplete(currPet) ==
  /\ ~Falsy(currPet.name)
  /\ ~Falsy(currPet.photo_url)
  /\ currPet.photo_url # STOCK_PHOTO

\* first loop: was available, now removed (currPet?.status)
RECURSIVE adoptedLoop(_, _)
adoptedLoop(prevEntries, currentPets) ==
  IF prevEntries = <<>> THEN <<>>
  ELSE LET prevPet == Head(prevEntries)
           rest == adoptedLoop(Tail(prevEntries), currentPets)
       IN IF /\ prevPet.status = "available"
             /\ MapHas(currentPets, prevPet.pet_id)
             /\ MapGet(currentPets, prevPet.pet_id).status = "removed"
          THEN <<MapGet(currentPets, prevPet.pet_id)>> \o rest
          ELSE rest

\* variant: the membership test against the previous list is dropped
RECURSIVE newPetsLoop_ignoresPrevious(_, _)
newPetsLoop_ignoresPrevious(currEntries, previousPets) ==
  IF currEntries = <<>> THEN <<>>
  ELSE LET currPet == Head(currEntries)
           rest == newPetsLoop_ignoresPrevious(Tail(currEntries), previousPets)
       IN IF currPet.status = "available" THEN <<currPet>> \o rest ELSE rest

\* second loop: never seen before and available
RECURSIVE newPetsLoop(_, _)
newPetsLoop(currEntries, previousPets) ==
  IF currEntries = <<>> THEN <<>>
  ELSE LET currPet == Head(currEntries)
           rest == newPetsLoop(Tail(currEntries), previousPets)
       IN IF ~MapHas(previousPets, currPet.pet_id) /\ currPet.status = "available"
          THEN <<currPet>> \o rest
          ELSE rest

\* variant: the announced-available flag of the current row is not tested
RECURSIVE completedLoop_ignoresFlag(_, _)
completedLoop_ignoresFlag(prevEntries, currentPets) ==
  IF prevEntries = <<>> THEN <<>>
  ELSE LET prevPet == Head(prevEntries)
           rest == completedLoop_ignoresFlag(Tail(prevEntries), currentPets)
       IN IF ~MapHas(currentPets, prevPet.pet_id) THEN rest
          ELSE LET currPet == MapGet(currentPets, prevPet.pet_id)
               IN IF currPet.status # "available" THEN rest
                  ELSE IF wasIncomplete(prevPet) /\ isNowComplete(currPet)
                       THEN <<currPet>> \o rest
                       ELSE rest

\* third loop: was incomplete, now has name + photo
RECURSIVE completedLoop(_, _)
completedLoop(prevEntries, currentPets) ==
  IF prevEntries = <<>> THEN <<>>
  ELSE LET prevPet == Head(prevEntries)
           rest == completedLoop(Tail(prevEntries), currentPets)
       IN IF ~MapHas(currentPets, prevPet.pet_id) THEN rest
          ELSE LET currPet == MapGet(currentPets, prevPet.pet_id)
               IN IF currPet.status # "available" THEN rest
                  ELSE IF currPet.discord_available_posted THEN rest
                  ELSE IF wasIncomplete(prevPet) /\ isNowComplete(currPet)
                       THEN <<currPet>> \o rest
                       ELSE rest

detectChanges(previousPets, currentPets) ==
  [adopted |-> adoptedLoop(MapEntries(previousPets), currentPets),
   newPets |-> newPetsLoop(MapEntries(currentPets), previousPets),
   completedPets |-> completedLoop(MapEntries(previousPets), currentPets)]

NoChanges == [adopted |-> <<>>, newPets |-> <<>>, completedPets |-> <<>>]

\* DiffSpec: no result yet
NoDiff == [applied |-> FALSE, changes |-> NoChanges]

\* ids of the pets of a list
IdsOf(list) == {list[i].pet_id : i \in 1..Len(list)}

\* ------------------------------------------------------------------------
\* Storage collaborator: lib/Database.js
\* ------------------------------------------------------------------------
RECURSIVE rowsOrderedByPetId(_, _)
rowsOrderedByPetId(table, ids) ==
  IF ids = {} THEN <<>>
  ELSE LET m == CHOOSE x \in ids : \A y \in ids : x <= y
       IN <<table[m]>> \o rowsOrderedByPetId(table, ids \ {m})

\* SELECT ... FROM pets ORDER BY pet_id
getAllPets(table) == rowsOrderedByPetId(table, DOMAIN table)

\* variant: the join without its WHERE p.pet_id = $1
getDraftedPetsForAdoption_unfiltered(roster, table, petId) ==
  {e \in roster : e.pet_id \in DOMAIN table /\ petId \in DOMAIN table}

\* SELECT ... FROM roster_entries re JOIN pets p ... WHERE p.pet_id = $1
getDraftedPetsForAdoption(roster, table, petId) ==
  {e \in roster : e.pet_id = petId /\ petId \in DOMAIN table}

\* SELECT points FROM breed_points WHERE breed = $1;  rows[0]?.points || 1
\* (table: the rows of breed_points, breed to points; 0 is falsy)
getBreedPoints(table, breed) ==
  IF breed \in DOMAIN table /\ table[breed] # 0
  THEN table[breed] ELSE 1

\* SELECT ... FROM roster_entries re JOIN pets p ... WHERE user_id = $1 AND league_id = $2
getUserRoster(roster, table, userId, leagueId) ==
  {e \in roster : e.user_id = userId /\ e.league_id = leagueId
                  /\ e.pet_id \in DOMAIN table}

\* INSERT INTO roster_entries ... ON CONFLICT (user_id, league_id, pet_id) DO NOTHING
draftPet(roster, userId, leagueId, petId) ==
  roster \cup {[user_id |-> userId, league_id |-> leagueId, pet_id |-> petId]}

\* COALESCE(SUM(points_amount), 0) FROM points WHERE user_id = $1 AND league_id = $2
RECURSIVE sumPoints(_, _, _)
sumPoints(recs, userId, leagueId) ==
  IF recs = <<>> THEN 0
  ELSE (IF Head(recs).user_id = userId /\ Head(recs).league_id = leagueId
        THEN Head(recs).points_amount ELSE 0)
       + sumPoints(Tail(recs), userId, leagueId)

\* INSERT INTO leaderboard_cache ... ON CONFLICT (league_id, user_id) DO UPDATE
upsertCache(cache, userId, leagueId, total) ==
  {r \in cache : ~(r.user_id = userId /\ r.league_id = leagueId)}
    \cup {[league_id |-> leagueId, user_id |-> userId, total_points |-> total]}

\* queued_at is not in the column list of the INSERTs: every row of one
\* statement takes the column's default, the time of the statement.  The
\* model stamps the rows with the number of items queued before the
\* statement, equal within one statement and larger for a later one.

\* variant: the selection without its tests of the name and of the photo
RECURSIVE newPetItems_incompleteToo(_, _, _, _)
newPetItems_incompleteToo(table, items, ids, channelId) ==
  IF ids = {} THEN <<>>
  ELSE LET m == CHOOSE x \in ids : \A y \in ids : x <= y
           p == table[m]
           sel == /\ p.status = "available"
                  /\ p.discord_available_posted = FALSE
                  /\ ~\E k \in 1..Len(items) :
                        /\ items[k].queue_type = "new_pet"
                        /\ items[k].pet_id = m
                        /\ items[k].channel_id = channelId
       IN (IF sel THEN <<[queue_type |-> "new_pet", pet_id |-> m,
                          channel_id |-> channelId, posted |-> FALSE,
                          queued_at |-> Len(items)]>>
           ELSE <<>>)
          \o newPetItems_incompleteToo(table, items, ids \ {m}, channelId)

\* the selection of queueNewPetsForChannel, in pet order
RECURSIVE newPetItems(_, _, _, _)
newPetItems(table, items, ids, channelId) ==
  IF ids = {} THEN <<>>
  ELSE LET m == CHOOSE x \in ids : \A y \in ids : x <= y
           p == table[m]
           sel == /\ p.status = "available"
                  /\ p.discord_available_posted = FALSE
                  /\ p.name # NULL
                  /\ (IF p.photo_url = NULL THEN "" ELSE p.photo_url) # STOCK_PHOTO
                  /\ ~\E k \in 1..Len(items) :
                        /\ items[k].queue_type = "new_pet"
                        /\ items[k].pet_id = m
                        /\ items[k].channel_id = channelId
       IN (IF sel THEN <<[queue_type |-> "new_pet", pet_id |-> m,
                          channel_id |-> channelId, posted |-> FALSE,
                          queued_at |-> Len(items)]>>
           ELSE <<>>)
          \o newPetItems(table, items, ids \ {m}, channelId)

queueNewPetsForChannel(table, items, channelId) ==
  items \o newPetItems(table, items, DOMAIN table, channelId)

\* the selection of queueCompletedPetsForChannel, in pet order
RECURSIVE completedPetItems(_, _, _, _)
completedPetItems(table, items, ids, channelId) ==
  IF ids = {} THEN <<>>
  ELSE LET m == CHOOSE x \in ids : \A y \in ids : x <= y
           p == table[m]
           photo == IF p.photo_url = NULL THEN "" ELSE p.photo_url
           sel == /\ p.status = "available"
                  /\ p.discord_available_posted = FALSE
                  /\ p.name # NULL
                  /\ p.name # ""
                  /\ photo # STOCK_PHOTO
                  /\ photo # ""
                  /\ ~\E k \in 1..Len(items) :
                        /\ items[k].queue_type = "completed_pet"
                        /\ items[k].pet_id = m
                        /\ items[k].channel_id = channelId
       IN (IF sel THEN <<[queue_type |-> "completed_pet", pet_id |-> m,
                          channel_id |-> channelId, posted |-> FALSE,
                          queued_at |-> Len(items)]>>
           ELSE <<>>)
          \o completedPetItems(table, items, ids \ {m}, channelId)

queueCompletedPetsForChannel(table, items, channelId) ==
  items \o completedPetItems(table, items, DOMAIN table, channelId)

\* the selection of queueAdoptions, in pet order (channel_id is NULL)
RECURSIVE adoptionItems(_, _, _, _)
adoptionItems(table, roster, items, ids) ==
  IF ids = {} THEN <<>>
  ELSE LET m == CHOOSE x \in ids : \A y \in ids : x <= y
           p == table[m]
           sel == /\ p.status = "removed"
                  /\ p.discord_adopted_posted = FALSE
                  /\ \/ (p.name # NULL /\ p.photo_url # NULL
                                      /\ p.photo_url # STOCK_PHOTO)
                     \/ \E e \in roster : e.pet_id = m
                  /\ ~\E k \in 1..Len(items) :
                        /\ items[k].queue_type = "adoption"
                        /\ items[k].pet_id = m
       IN (IF sel THEN <<[queue_type |-> "adoption", pet_id |-> m,
                          channel_id |-> NULL, posted |-> FALSE,
                          queued_at |-> Len(items)]>>
           ELSE <<>>)
          \o adoptionItems(table, roster, items, ids \ {m})

\* variant: the NOT EXISTS guard is dropped, leaving ON CONFLICT alone,
\* which never fires for a NULL channel_id
queueAdoptions_noGuard(table, roster, items) ==
  items \o adoptionItems(table, roster, <<>>, DOMAIN table)

queueAdoptions(table, roster, items) ==
  items \o adoptionItems(table, roster, items, DOMAIN table)

\* one queueXForChannel call per channel configuration
RECURSIVE queueForConfigs(_, _, _, _)
queueForConfigs(kind, table, items, chans) ==
  IF chans = {} THEN items
  ELSE LET c == CHOOSE x \in chans : TRUE
           added == IF kind = "new_pet"
                    THEN queueNewPetsForChannel(table, items, c)
                    ELSE queueCompletedPetsForChannel(table, items, c)
       IN queueForConfigs(kind, table, added, chans \ {c})

\* ------------------------------------------------------------------------
\* Snapshot Store: lib/StateManager.js
\* ------------------------------------------------------------------------
\* a timing mark is null, a Date object of the running process or the ISO
\* string a saved Date is read back as; t is the instant in minutes
NullMark == [kind |-> "null", t |-> 0]
NoMarks == [c \in Channels |-> NullMark]

\* the constructor's state
freshState ==
  [pets |-> <<>>, totalChecks |-> 0,
   petQueues |-> NoMarks, adoptionQueueLastPost |-> NullMark]
NoFile == [exists |-> FALSE, content |-> freshState, complete |-> FALSE]

\* updatePets: replace the list and count the check
updatePets(st, currentPets) ==
  [st EXCEPT !.pets = currentPets, !.totalChecks = @ + 1]

\* new Date(): the Date object of the current instant
NewDate(t) == [kind |-> "Date", t |-> t]

\* new Date(lastPost).getTime(): a Date object or an ISO string, in minutes
getTime(mark) == mark.t

\* variant: the timing mark is not written
toJSON_dropped(mark) == NullMark

\* JSON.stringify of a timing mark: Date.prototype.toJSON gives the ISO string
toJSON(mark) ==
  IF mark.kind = "Date" THEN [kind |-> "string", t |-> mark.t] ELSE mark

\* JSON.stringify of a pet row: its Date columns become ISO strings
petToJSON(row) ==
  IF "brought_to_shelter" \in DOMAIN row
  THEN [row EXCEPT !.brought_to_shelter = toJSON(@)]
  ELSE row

\* saveToFile: JSON.stringify of the state
JSON_stringify(st) ==
  [st EXCEPT !.pets = [i \in 1..Len(st.pets) |-> petToJSON(st.pets[i])],
             !.petQueues = [c \in Channels |-> toJSON(st.petQueues[c])],
             !.adoptionQueueLastPost = toJSON(st.adoptionQueueLastPost)]

\* loadFromFile: JSON.parse of the file; strings stay strings
JSON_parse(text) == text

\* loadFromFile: null when readFile fails (no file) or JSON.parse throws (a
\* file that holds only part of the text)
loadFromFile(file) == file.exists /\ file.complete

\* load: the file's content when loadFromFile returns it, else the
\* constructor's state
load(file) == IF loadFromFile(file) THEN JSON_parse(file.content) ELSE freshState

\* save: writeFile of the whole state; a failure is logged and swallowed
save(st, file, ok) ==
  IF ok THEN [exists |-> TRUE, content |-> JSON_stringify(st), complete |-> TRUE]
  ELSE file

\* recordPetQueuePost / recordAdoptionQueuePost
recordPetQueuePost(st, channelId, t) ==
  [st EXCEPT !.petQueues[channelId] = NewDate(t)]

recordAdoptionQueuePost(st, t) ==
  [st EXCEPT !.adoptionQueueLastPost = NewDate(t)]

\* the body shared by isTimeForPetQueuePost and isTimeForAdoptionQueuePost:
\* never posted before, or diffMinutes >= intervalMinutes
isTimeForPost(lastPost, t) ==
  IF lastPost.kind = "null" THEN TRUE
  ELSE t - getTime(lastPost) >= intervalMinutes

isTimeForPetQueuePost(st, channelId, t) ==
  isTimeForPost(st.petQueues[channelId], t)

isTimeForAdoptionQueuePost(st, t) ==
  isTimeForPost(st.adoptionQueueLastPost, t)

\* the broadcast window: 9 AM to 9 PM of the day, in minutes after midnight
isWithinBroadcastWindow(t) ==
  LET minuteOfDay == t % MINUTES_PER_DAY
  IN WINDOW_START_HOUR * 60 <= minuteOfDay /\ minuteOfDay < WINDOW_END_HOUR * 60

\* ------------------------------------------------------------------------
\* Transactions: Database.beginTransaction / commitTransaction /
\* rollbackTransaction.  A transaction's writes are pending until COMMIT.
\* A statement that fails inside a transaction leaves it aborted: every
\* later statement fails and COMMIT ends it as a rollback, without error.
\* ------------------------------------------------------------------------
\* the content of a table after COMMIT, given its content with the
\* transaction's pending writes applied
commitTransaction(txStatus, committed, withPending) ==
  IF txStatus = "open" THEN withPending ELSE committed

\* variant: ROLLBACK that leaves the pending writes in place
rollbackTransaction_keepsWrites(committed, withPending) == withPending

\* the content of a table after ROLLBACK
rollbackTransaction(committed, withPending) == committed

\* INSERT INTO points ... (PointsManager.awardPointsInTransaction)
awardPointsInTransaction(txPoints, userId, leagueId, petId, pointsAmount) ==
  Append(txPoints, [user_id |-> userId, league_id |-> leagueId,
                    pet_id |-> petId, points_amount |-> pointsAmount])

\* variant: the recomputation sums on another connection, which does not
\* see the score records the transaction has inserted
updateLeaderboardCacheInTransaction_otherConnection(txCache, visiblePoints, userId, leagueId) ==
  upsertCache(txCache, userId, leagueId, sumPoints(points, userId, leagueId))

\* INSERT INTO leaderboard_cache SELECT SUM(points_amount) ... ON CONFLICT DO UPDATE,
\* evaluated on what the transaction sees: committed rows and its own inserts
updateLeaderboardCacheInTransaction(txCache, visiblePoints, userId, leagueId) ==
  upsertCache(txCache, userId, leagueId, sumPoints(visiblePoints, userId, leagueId))

\* variant: the claims of the adopted pet are kept
removeFromRostersInTransaction_keepsClaims(roster, petId) == roster

\* DELETE FROM roster_entries WHERE pet_id = $1
removeFromRostersInTransaction(roster, petId) ==
  {e \in roster : e.pet_id # petId}

\* the pending cache rows of a transaction applied to the table
applyCache(cache, txCache) ==
  {r \in cache : ~\E t \in txCache : t.user_id = r.user_id /\ t.league_id = r.league_id}
    \cup txCache

\* ------------------------------------------------------------------------
\* Check cycle: bot.js runCheck, PointsManager.processAdoptions
\* ------------------------------------------------------------------------
idleRc ==
  [pc |-> "idle", currentPets |-> <<>>, changes |-> NoChanges, i |-> 0,
   tx |-> "none", txPoints |-> <<>>, txCache |-> {}, todo |-> {},
   breedPoints |-> 0, pointsAwarded |-> {}, failedAwards |-> {},
   results |-> <<>>]

\* state.save() calls in progress: the check cycle's and the queue drain's
Writers == {"check", "drain"}
idleWriter == [pc |-> "idle", text |-> freshState, dirty |-> FALSE]
noWriters == [w \in Writers |-> idleWriter]

\* claim operations: those suspended at an await, and the last reply sent
NoReply == [user_id |-> 0, pet_id |-> 0, via |-> NULL, out |-> "none"]
idleCl == [ops |-> {}, last |-> NoReply]

\* steps of the environment that land while a check cycle is suspended are
\* counted, and bounded by MaxInterleaved
MayInterleave == rc.pc # "idle" => hist.interleaved < MaxInterleaved
HistAfterExternal ==
  IF rc.pc # "idle" THEN [hist EXCEPT !.interleaved = @ + 1] ELSE hist

Faulted == [hist EXCEPT !.faults = @ + 1]
MayFail(fault) == fault # "none" => hist.faults < MaxFaults
HistAfter(fault) == IF fault = "none" THEN hist ELSE Faulted

\* the log of the completed checks: the pets a completed check had in
\* completedPets, and those that more than one completed check had
logNewlyComplete(h, ids) ==
  [h EXCEPT !.newlyComplete = @ \cup ids, !.again = @ \cup (h.newlyComplete \cap ids)]

\* variant: the length test inverted
isFirstRun_nonEmpty(previousPets, totalChecks) ==
  Len(previousPets) # 0 /\ totalChecks = 0

\* previousPets.length === 0 && state.getStatistics().totalChecks === 0
isFirstRun(previousPets, totalChecks) ==
  Len(previousPets) = 0 /\ totalChecks = 0

\* where runCheck continues once the adoptions are handled
afterAdoptions(changes) ==
  IF Len(changes.newPets) > 0 THEN "queue_new"
  ELSE IF Len(changes.completedPets) > 0 THEN "queue_completed"
  ELSE "update_state"

afterNewPets(changes) ==
  IF Len(changes.completedPets) > 0 THEN "queue_completed" ELSE "update_state"

\* the catch block of runCheck: the cycle is abandoned, the snapshot untouched
\* variant: the report is sent without a try block around it
broadcastError_unguarded(debugChannel) ==
  IF debugChannel = "unset" THEN "skipped"
  ELSE IF debugChannel = "fails" THEN "throws"
  ELSE "sent"

\* broadcastError: nothing to do without DEBUG_CHANNEL_ID; a failure of the
\* fetch or of the send is caught and logged
broadcastError(debugChannel) ==
  IF debugChannel = "unset" THEN "skipped"
  ELSE IF debugChannel = "fails" THEN "logged"
  ELSE "sent"

\* the catch block of runCheck and of processQueues: console.error, then
\* await broadcastError; an error thrown by it rejects the cycle's promise
catchAndReport(h) ==
  [h EXCEPT !.rejections =
     IF broadcastError(h.debugChannel) = "throws" THEN @ + 1 ELSE @]

abortCheck ==
  /\ rc' = idleRc
  /\ hist' = catchAndReport([Faulted EXCEPT !.aborts = @ + 1])

\* runCheck up to its first suspension after getAllPets
runCheck ==
  /\ rc.pc = "idle"
  /\ state.totalChecks < hist.checksBefore + MaxChecks
  /\ \E fault \in {"none", "getAllPets", "save"} :
       /\ MayFail(fault)
       /\ LET currentPets == getAllPets(pets)
              previousPets == state.pets
              changes == detectChanges(previousPets, currentPets)
              quiet == changes = NoChanges
          IN IF fault = "getAllPets"
             THEN /\ abortCheck
                  /\ UNCHANGED <<state, stateFile>>
             ELSE IF isFirstRun(previousPets, state.totalChecks) \/ quiet
             THEN /\ state' = updatePets(state, currentPets)
                  /\ stateFile' = save(state', stateFile, fault # "save")
                  /\ rc' = idleRc
                  /\ hist' = HistAfter(fault)
             ELSE /\ fault = "none"
                  /\ rc' = [idleRc EXCEPT
                              !.pc = IF Len(changes.adopted) > 0 THEN "adopt"
                                     ELSE afterAdoptions(changes),
                              !.currentPets = currentPets,
                              !.changes = changes,
                              !.i = 1]
                  /\ UNCHANGED <<state, stateFile, hist>>
  /\ UNCHANGED <<diffvars, queuevars, sidevars, dbvars, buttons>>

\* variant: a pet whose transaction failed ends the loop
nextPet_stopOnError(r, result) ==
  LET done == [r EXCEPT !.tx = "none", !.txPoints = <<>>, !.txCache = {},
                        !.todo = {}, !.breedPoints = 0,
                        !.pointsAwarded = {}, !.failedAwards = {},
                        !.results = Append(@, result)]
  IN IF r.i < Len(r.changes.adopted) /\ ~result.error
     THEN [done EXCEPT !.i = @ + 1, !.pc = "adopt"]
     ELSE [done EXCEPT !.pc = "queue_adoptions"]

\* processAdoptions moves on to the next adopted pet, or returns
nextPet(r, result) ==
  LET done == [r EXCEPT !.tx = "none", !.txPoints = <<>>, !.txCache = {},
                        !.todo = {}, !.breedPoints = 0,
                        !.pointsAwarded = {}, !.failedAwards = {},
                        !.results = Append(@, result)]
  IN IF r.i < Len(r.changes.adopted)
     THEN [done EXCEPT !.i = @ + 1, !.pc = "adopt"]
     ELSE [done EXCEPT !.pc = "queue_adoptions"]

Result(petId, awarded, failed, err) ==
  [pet_id |-> petId, pointsAwarded |-> awarded, failedAwards |-> failed,
   error |-> err]

\* processAdoptions, one pet: BEGIN, the claim lookup and the breed lookup
processAdoptions_lookup ==
  /\ rc.pc = "adopt"
  /\ \E fault \in {"none", "begin", "lookup"} :
       /\ MayFail(fault)
       /\ LET pet == rc.changes.adopted[rc.i]
              rosterEntries == getDraftedPetsForAdoption(roster_entries, pets, pet.pet_id)
          IN CASE fault = "begin" ->
                    abortCheck
               [] fault = "lookup" ->
                    /\ rc' = nextPet(rc, Result(pet.pet_id, {}, {}, TRUE))
                    /\ hist' = Faulted
               [] fault = "none" /\ rosterEntries = {} ->
                    /\ rc' = nextPet(rc, Result(pet.pet_id, {}, {}, FALSE))
                    /\ hist' = hist
               [] fault = "none" /\ rosterEntries # {} ->
                    /\ rc' = [rc EXCEPT !.pc = "award", !.tx = "open",
                                        !.todo = rosterEntries,
                                        !.breedPoints = getBreedPoints(breed_points, BreedOf(pet.pet_id))]
                    /\ hist' = hist
  /\ UNCHANGED <<diffvars, queuevars, sidevars, dbvars, state, stateFile, buttons>>

\* the leaderboard_cache row is locked by the open transaction of the other
\* invocation: the upsert waits for that transaction to end
RowLockedByOther(userId, leagueId) ==
  /\ rc2.tx = "open"
  /\ \E row \in rc2.txCache : row.user_id = userId /\ row.league_id = leagueId

\* processAdoptions, one claim of the pet: insert the score record, recompute
\* the cache row; a failure is caught and recorded in failedAwards
processAdoptions_award ==
  /\ rc.pc = "award"
  /\ \E entry \in rc.todo, fault \in {"none", "insert", "cache"} :
       /\ MayFail(fault)
       /\ rc.tx = "aborted" => fault = "none"
       /\ ~RowLockedByOther(entry.user_id, entry.league_id)
       /\ LET pet == rc.changes.adopted[rc.i]
              inserted == awardPointsInTransaction(rc.txPoints, entry.user_id,
                              entry.league_id, pet.pet_id, rc.breedPoints)
              cached == updateLeaderboardCacheInTransaction(rc.txCache,
                              points \o inserted, entry.user_id, entry.league_id)
              ok == rc.tx = "open" /\ fault = "none"
              r1 == IF ok
                    THEN [rc EXCEPT !.txPoints = inserted, !.txCache = cached,
                                    !.pointsAwarded = @ \cup {entry}]
                    ELSE [rc EXCEPT !.tx = "aborted",
                                    !.txPoints = IF rc.tx = "open" /\ fault = "cache"
                                                 THEN inserted ELSE @,
                                    !.failedAwards = @ \cup {entry}]
              r2 == [r1 EXCEPT !.todo = @ \ {entry}]
          IN /\ rc' = IF r2.todo = {} THEN [r2 EXCEPT !.pc = "finish"] ELSE r2
             /\ hist' = HistAfter(fault)
  /\ UNCHANGED <<diffvars, queuevars, sidevars, dbvars, state, stateFile, buttons>>

\* processAdoptions, one pet: remove from rosters when something was
\* awarded (a failure is caught), then COMMIT; an error of COMMIT reaches
\* the catch block, which rolls back
processAdoptions_finish ==
  /\ rc.pc = "finish"
  /\ \E fault \in {"none", "remove", "commit", "rollback"} :
       /\ MayFail(fault)
       /\ fault = "remove" => (rc.pointsAwarded # {} /\ rc.tx = "open")
       /\ LET pet == rc.changes.adopted[rc.i]
              removing == rc.pointsAwarded # {}
              txStatus == IF removing /\ fault = "remove" THEN "aborted" ELSE rc.tx
              withPoints == points \o rc.txPoints
              withCache == applyCache(leaderboard_cache, rc.txCache)
              withRoster == IF removing
                            THEN removeFromRostersInTransaction(roster_entries, pet.pet_id)
                            ELSE roster_entries
          IN CASE fault = "rollback" ->
                    \* COMMIT fails, then ROLLBACK fails too: the error leaves
                    \* processAdoptions and ends the cycle
                    /\ abortCheck
                    /\ UNCHANGED <<points, leaderboard_cache, roster_entries>>
               [] fault = "commit" ->
                    /\ points' = rollbackTransaction(points, withPoints)
                    /\ leaderboard_cache' = rollbackTransaction(leaderboard_cache, withCache)
                    /\ roster_entries' = rollbackTransaction(roster_entries, withRoster)
                    /\ rc' = nextPet(rc, Result(pet.pet_id, {}, {}, TRUE))
                    /\ hist' = Faulted
               [] OTHER ->
                    /\ points' = commitTransaction(txStatus, points, withPoints)
                    /\ leaderboard_cache' = commitTransaction(txStatus, leaderboard_cache, withCache)
                    /\ roster_entries' = commitTransaction(txStatus, roster_entries, withRoster)
                    /\ rc' = nextPet(rc, Result(pet.pet_id, rc.pointsAwarded,
                                                rc.failedAwards, FALSE))
                    /\ hist' = HistAfter(fault)
  /\ UNCHANGED <<diffvars, queuevars, sidevars, pets, discord_queue_items, state, stateFile, buttons>>

\* runCheck: db.queueAdoptions()
runCheck_queueAdoptions ==
  /\ rc.pc = "queue_adoptions"
  /\ \E fault \in {"none", "queue"} :
       /\ MayFail(fault)
       /\ IF fault = "queue"
          THEN abortCheck /\ UNCHANGED discord_queue_items
          ELSE /\ discord_queue_items' =
                    queueAdoptions(pets, roster_entries, discord_queue_items)
               /\ rc' = [rc EXCEPT !.pc = afterAdoptions(rc.changes)]
               /\ hist' = hist
  /\ UNCHANGED <<diffvars, queuevars, sidevars, pets, roster_entries, points, leaderboard_cache, state, stateFile, buttons>>

\* runCheck: queueNewPetsForChannel for every channel configuration
runCheck_queueNewPets ==
  /\ rc.pc = "queue_new"
  /\ \E fault \in {"none", "queue"} :
       /\ MayFail(fault)
       /\ IF fault = "queue"
          THEN abortCheck /\ UNCHANGED discord_queue_items
          ELSE /\ discord_queue_items' =
                    queueForConfigs("new_pet", pets, discord_queue_items, DOMAIN channelConfigs)
               /\ rc' = [rc EXCEPT !.pc = afterNewPets(rc.changes)]
               /\ hist' = hist
  /\ UNCHANGED <<diffvars, queuevars, sidevars, pets, roster_entries, points, leaderboard_cache, state, stateFile, buttons>>

\* runCheck: queueCompletedPetsForChannel for every channel configuration
runCheck_queueCompletedPets ==
  /\ rc.pc = "queue_completed"
  /\ \E fault \in {"none", "queue"} :
       /\ MayFail(fault)
       /\ IF fault = "queue"
          THEN abortCheck /\ UNCHANGED discord_queue_items
          ELSE /\ discord_queue_items' =
                    queueForConfigs("completed_pet", pets, discord_queue_items, DOMAIN channelConfigs)
               /\ rc' = [rc EXCEPT !.pc = "update_state"]
               /\ hist' = hist
  /\ UNCHANGED <<diffvars, queuevars, sidevars, pets, roster_entries, points, leaderboard_cache, state, stateFile, buttons>>

\* runCheck: state.updatePets(currentPets); state.setLastCheck; await state.save()
runCheck_updateState ==
  /\ rc.pc = "update_state"
  /\ \E fault \in {"none", "save"} :
       /\ MayFail(fault)
       /\ state' = updatePets(state, rc.currentPets)
       /\ stateFile' = save(state', stateFile, fault # "save")
       /\ hist' = logNewlyComplete(HistAfter(fault), IdsOf(rc.changes.completedPets))
  /\ rc' = idleRc
  /\ UNCHANGED <<diffvars, queuevars, sidevars, dbvars, buttons>>

\* ------------------------------------------------------------------------
\* Claim operations: CommandHandler.draftPet (!addpet) and the draft button
\* of a pet-lookup reply (bot.js messageCreate)
\* ------------------------------------------------------------------------
\* !addpet [pet_id] in a configured channel
addpet ==
  \E u \in Users, c \in Channels, p \in PetIds :
    LET leagueId == channelConfigs[c]
        roster == getUserRoster(roster_entries, pets, u, leagueId)
        out == IF Cardinality(roster) >= ROSTER_LIMIT THEN "full"
               ELSE IF p \notin DOMAIN pets THEN "not_found"
               ELSE IF pets[p].status # "available" THEN "not_available"
               ELSE IF \E r \in roster : r.pet_id = p THEN "already"
               ELSE "drafted"
    IN /\ out = "drafted"
       /\ roster_entries' = draftPet(roster_entries, u, leagueId, p)
       /\ MayInterleave
       /\ hist' = HistAfterExternal
       /\ UNCHANGED <<diffvars, queuevars, sidevars, pets, points, leaderboard_cache, discord_queue_items,
                      state, stateFile, rc, buttons>>

\* a message naming a pet id: the reply carries a live draft button when
\* the pet is available and nobody of the channel's league has drafted it
petLookup ==
  \E c \in Channels, p \in DOMAIN pets :
    LET leagueId == channelConfigs[c]
        isDraftedByAnyone == \E e \in roster_entries :
                                e.pet_id = p /\ e.league_id = leagueId
    IN /\ pets[p].status = "available" /\ ~isDraftedByAnyone
       /\ [pet_id |-> p, channel_id |-> c] \notin buttons
       /\ buttons' = buttons \cup {[pet_id |-> p, channel_id |-> c]}
       /\ MayInterleave
       /\ hist' = HistAfterExternal
       /\ UNCHANGED <<diffvars, queuevars, sidevars, dbvars, state, stateFile, rc>>

\* a user clicks the draft button of an earlier reply
draftButton ==
  \E b \in buttons, u \in Users :
    LET leagueId == channelConfigs[b.channel_id]
        roster == getUserRoster(roster_entries, pets, u, leagueId)
        count == Cardinality({e \in roster_entries :
                                e.pet_id = b.pet_id /\ e.league_id = leagueId})
        out == IF Cardinality(roster) >= ROSTER_LIMIT THEN "full"
               ELSE IF \E r \in roster : r.pet_id = b.pet_id THEN "already"
               ELSE IF count > 0 THEN "taken"
               ELSE "drafted"
    IN /\ out = "drafted"
       /\ roster_entries' = draftPet(roster_entries, u, leagueId, b.pet_id)
       /\ buttons' = buttons \ {b}
       /\ MayInterleave
       /\ hist' = HistAfterExternal
       /\ UNCHANGED <<diffvars, queuevars, sidevars, pets, points, leaderboard_cache, discord_queue_items,
                      state, stateFile, rc>>

\* the collector of a button times out (10 minutes)
buttonExpires ==
  \E b \in buttons :
    /\ buttons' = buttons \ {b}
    /\ hist' = hist
    /\ UNCHANGED <<diffvars, queuevars, sidevars, dbvars, state, stateFile, rc>>

\* ------------------------------------------------------------------------
\* Ingestion (external writer of the pets table)
\* ------------------------------------------------------------------------
\* a pet arrives without name and photo, or complete
IngestShapes == {<<NULL, STOCK_PHOTO>>, <<"Buddy", REAL_PHOTO>>}

ingestNew ==
  \E p \in PetIds \ DOMAIN pets, sh \in IngestShapes :
    /\ \A q \in PetIds : q < p => q \in DOMAIN pets
    /\ pets' = [q \in DOMAIN pets \cup {p} |->
                  IF q = p THEN PetRow(p, "available", sh[1], sh[2], FALSE, FALSE)
                  ELSE pets[q]]
    /\ MayInterleave
    /\ hist' = HistAfterExternal
    /\ UNCHANGED <<diffvars, queuevars, sidevars, roster_entries, points, leaderboard_cache,
                   discord_queue_items, state, stateFile, rc, buttons>>

ingestUpdate ==
  \E p \in DOMAIN pets :
    /\ pets[p].status = "available"
    /\ Falsy(pets[p].name)
    /\ pets' = [pets EXCEPT ![p].name = "Buddy", ![p].photo_url = REAL_PHOTO]
    /\ MayInterleave
    /\ hist' = HistAfterExternal
    /\ UNCHANGED <<diffvars, queuevars, sidevars, roster_entries, points, leaderboard_cache,
                   discord_queue_items, state, stateFile, rc, buttons>>

ingestRemove ==
  \E p \in DOMAIN pets :
    /\ pets[p].status = "available"
    /\ pets' = [pets EXCEPT ![p].status = "removed"]
    /\ MayInterleave
    /\ hist' = HistAfterExternal
    /\ UNCHANGED <<diffvars, queuevars, sidevars, roster_entries, points, leaderboard_cache,
                   discord_queue_items, state, stateFile, rc, buttons>>

\* ------------------------------------------------------------------------
\* Queue drain: bot.js processQueues, lib/QueueManager.js
\* ------------------------------------------------------------------------
PetLaneTypes == {"new_pet", "completed_pet"}
ADOPTION_LANE == "adoption"

NoCandidate ==
  [queue_id |-> 0, pet_id |-> 0, status |-> NULL, brought_to_shelter |-> NullMark]

idleQc ==
  [pc |-> "idle", todo |-> {}, channelId |-> NULL, attemptCount |-> 0,
   petToPost |-> NoCandidate]

\* variant: the sort is descending
oldest_newestFirst(items, pending) ==
  {i \in pending : \A j \in pending : items[i].queued_at >= items[j].queued_at}

\* the rows ORDER BY queued_at ASC LIMIT 1 may return: the query names no
\* second sort key, so any of the rows with the least queued_at
oldest(items, pending) ==
  {i \in pending : \A j \in pending : items[i].queued_at <= items[j].queued_at}

\* the row a getNext... query returns: the queue item joined with its pet
candidateRow(items, table, i) ==
  [queue_id |-> i, pet_id |-> items[i].pet_id,
   status |-> table[items[i].pet_id].status,
   brought_to_shelter |-> table[items[i].pet_id].brought_to_shelter]

\* getNextPetToPost: the oldest unposted pet item of the channel (the set of
\* the rows the query may return, NoCandidate when there is none)
getNextPetToPost(items, table, channelId) ==
  LET pending == {i \in 1..Len(items) :
                    /\ items[i].queue_type \in PetLaneTypes
                    /\ items[i].channel_id = channelId
                    /\ ~items[i].posted
                    /\ items[i].pet_id \in DOMAIN table}
  IN IF pending = {} THEN {NoCandidate}
     ELSE {candidateRow(items, table, i) : i \in oldest(items, pending)}

\* getNextAdoptionToPost: the oldest unposted adoption item
getNextAdoptionToPost(items, table) ==
  LET pending == {i \in 1..Len(items) :
                    /\ items[i].queue_type = "adoption"
                    /\ ~items[i].posted
                    /\ items[i].pet_id \in DOMAIN table}
  IN IF pending = {} THEN {NoCandidate}
     ELSE {candidateRow(items, table, i) : i \in oldest(items, pending)}

\* UPDATE discord_queue_items SET posted = TRUE WHERE id = $1
markQueueItemPosted(items, queueId) == [items EXCEPT ![queueId].posted = TRUE]

\* UPDATE pets SET discord_available_posted = TRUE WHERE id = $1
markPetAvailablePosted(table, petId) ==
  IF petId \in DOMAIN table
  THEN [table EXCEPT ![petId].discord_available_posted = TRUE] ELSE table

\* UPDATE pets SET discord_adopted_posted = TRUE WHERE id = $1
markPetAdoptedPosted(table, petId) ==
  IF petId \in DOMAIN table
  THEN [table EXCEPT ![petId].discord_adopted_posted = TRUE] ELSE table

\* Math.max(0, Math.floor((now - then) / one day)), 0 without a date
calculateDaysSince(date, t) ==
  IF date.kind = "null" THEN 0
  ELSE LET diff == t - getTime(date)
       IN IF diff < 0 THEN 0 ELSE diff \div MINUTES_PER_DAY

\* still available, with an arrival date, less than 4 days in the shelter
validatePetForBroadcast(pet, t) ==
  /\ pet.status = "available"
  /\ pet.brought_to_shelter.kind # "null"
  /\ calculateDaysSince(pet.brought_to_shelter, t) < freshnessDays

\* variant: the window is not consulted
outsideBroadcastWindow_never(t) == FALSE

\* if (!this.state.isWithinBroadcastWindow()) return;
outsideBroadcastWindow(t) == ~isWithinBroadcastWindow(t)

\* variant: the attempt counter does not stop the loop
attemptsLeft_unbounded(attemptCount) == TRUE

\* while (!petToPost && attemptCount < maxAttempts)
attemptsLeft(attemptCount) == attemptCount < maxAttempts

\* one announcement sent with channel.send
Emission(lane, petId) ==
  [lane |-> lane, pet_id |-> petId, item |-> qc.petToPost.queue_id,
   at |-> now, drain |-> hist.drains]

\* the catch block of processQueues: the drain is abandoned
abortDrain ==
  /\ qc' = idleQc
  /\ hist' = catchAndReport(Faulted)

\* processPetQueues goes on with the next channel configuration
nextLane(q) ==
  [q EXCEPT !.pc = "pet_lane", !.todo = @ \ {q.channelId}, !.channelId = NULL,
            !.attemptCount = 0, !.petToPost = NoCandidate]

\* processQueues is invoked (interval timer or startup trigger) and waits
\* for getAllChannelConfigs
processQueues ==
  /\ qc.pc = "idle"
  /\ hist.drains < MaxDrains
  /\ qc' = [idleQc EXCEPT !.pc = "pet_queues"]
  /\ hist' = [hist EXCEPT !.drains = @ + 1]
  /\ UNCHANGED <<diffvars, sidevars, dbvars, state, stateFile, rc, buttons, now, emitted>>

\* processPetQueues: the broadcast-window gate
processPetQueues ==
  /\ qc.pc = "pet_queues"
  /\ \E fault \in {"none", "getAllChannelConfigs"} :
       /\ MayFail(fault)
       /\ IF fault # "none" THEN abortDrain
          ELSE /\ qc' = IF outsideBroadcastWindow(now)
                        THEN [qc EXCEPT !.pc = "adoption_queue"]
                        ELSE [qc EXCEPT !.pc = "pet_lane", !.todo = Channels]
               /\ hist' = hist
  /\ UNCHANGED <<diffvars, sidevars, dbvars, state, stateFile, rc, buttons, now, emitted>>

\* processPetQueues: the spacing gate of the next channel
processPetQueues_lane ==
  /\ qc.pc = "pet_lane"
  /\ IF qc.todo = {} THEN qc' = [qc EXCEPT !.pc = "adoption_queue"]
     ELSE \E c \in qc.todo :
            qc' = IF isTimeForPetQueuePost(state, c, now)
                  THEN [qc EXCEPT !.pc = "intercept", !.channelId = c]
                  ELSE nextLane([qc EXCEPT !.channelId = c])
  /\ UNCHANGED <<diffvars, sidevars, dbvars, state, stateFile, rc, buttons, hist, now, emitted>>

\* processPetQueues: one turn of the intercept loop up to the validation
processPetQueues_intercept ==
  /\ qc.pc = "intercept"
  /\ \E fault \in {"none", "getNextPetToPost"} :
       /\ MayFail(fault)
       /\ IF ~attemptsLeft(qc.attemptCount)
          THEN /\ fault = "none"
               /\ qc' = nextLane(qc)
               /\ hist' = hist
          ELSE IF fault # "none" THEN abortDrain
          ELSE \E candidate \in getNextPetToPost(discord_queue_items, pets, qc.channelId) :
               LET counted == [qc EXCEPT !.attemptCount = @ + 1]
               IN /\ qc' = IF candidate = NoCandidate THEN nextLane(qc)
                           ELSE IF validatePetForBroadcast(candidate, now)
                           THEN [counted EXCEPT !.pc = "post", !.petToPost = candidate]
                           ELSE [counted EXCEPT !.pc = "skip", !.petToPost = candidate]
                  /\ hist' = hist
  /\ UNCHANGED <<diffvars, sidevars, dbvars, state, stateFile, rc, buttons, now, emitted>>

\* processPetQueues: a candidate that failed validation is consumed
processPetQueues_skip ==
  /\ qc.pc = "skip"
  /\ \E fault \in {"none", "markQueueItemPosted", "markPetAvailablePosted"} :
       /\ MayFail(fault)
       /\ discord_queue_items' =
            IF fault = "markQueueItemPosted" THEN discord_queue_items
            ELSE markQueueItemPosted(discord_queue_items, qc.petToPost.queue_id)
       /\ pets' = IF fault = "none"
                  THEN markPetAvailablePosted(pets, qc.petToPost.pet_id) ELSE pets
       /\ IF fault # "none" THEN abortDrain
          ELSE /\ qc' = [qc EXCEPT !.pc = "intercept", !.petToPost = NoCandidate]
               /\ hist' = hist
  /\ UNCHANGED <<diffvars, sidevars, roster_entries, points, leaderboard_cache,
                 state, stateFile, rc, buttons, now, emitted>>

\* variant: the marks are written before the send, whatever its outcome
processPetQueues_post_markFirst ==
  /\ qc.pc = "post"
  /\ \E fault \in {"none", "send"} :
       /\ MayFail(fault)
       /\ discord_queue_items' =
            markQueueItemPosted(discord_queue_items, qc.petToPost.queue_id)
       /\ pets' = markPetAvailablePosted(pets, qc.petToPost.pet_id)
       /\ IF fault # "none"
          THEN /\ qc' = nextLane(qc)
               /\ hist' = Faulted
               /\ UNCHANGED <<emitted, buttons>>
          ELSE /\ emitted' = Append(emitted, Emission(qc.channelId, qc.petToPost.pet_id))
               /\ buttons' = buttons \cup {[pet_id |-> qc.petToPost.pet_id,
                                             channel_id |-> qc.channelId]}
               /\ qc' = [qc EXCEPT !.pc = "mark"]
               /\ hist' = hist
  /\ UNCHANGED <<diffvars, sidevars, roster_entries, points, leaderboard_cache,
                 state, stateFile, rc, now>>

\* processPetQueues: channel.send of the valid pet, with a draft button
\* when the pet is on no roster
processPetQueues_post ==
  /\ qc.pc = "post"
  /\ \E fault \in {"none", "send"} :
       /\ MayFail(fault)
       /\ IF fault # "none"
          THEN /\ qc' = nextLane(qc)
               /\ hist' = Faulted
               /\ UNCHANGED <<emitted, buttons>>
          ELSE LET petId == qc.petToPost.pet_id
                   isOnRoster == \E e \in roster_entries : e.pet_id = petId
               IN /\ emitted' = Append(emitted, Emission(qc.channelId, petId))
                  /\ buttons' = IF isOnRoster THEN buttons
                                ELSE buttons \cup {[pet_id |-> petId,
                                                    channel_id |-> qc.channelId]}
                  /\ qc' = [qc EXCEPT !.pc = "mark"]
                  /\ hist' = hist
  /\ UNCHANGED <<diffvars, sidevars, dbvars, state, stateFile, rc, now>>

\* processPetQueues: the posted marks, the timing mark and its save
processPetQueues_mark ==
  /\ qc.pc = "mark"
  /\ \E fault \in {"none", "markQueueItemPosted", "markPetAvailablePosted", "save"} :
       /\ MayFail(fault)
       /\ discord_queue_items' =
            IF fault = "markQueueItemPosted" THEN discord_queue_items
            ELSE markQueueItemPosted(discord_queue_items, qc.petToPost.queue_id)
       /\ pets' = IF fault \in {"none", "save"}
                  THEN markPetAvailablePosted(pets, qc.petToPost.pet_id) ELSE pets
       /\ state' = IF fault \in {"none", "save"}
                   THEN recordPetQueuePost(state, qc.channelId, now) ELSE state
       /\ stateFile' = save(state', stateFile, fault = "none")
       /\ hist' = HistAfter(fault)
  /\ qc' = nextLane(qc)
  /\ UNCHANGED <<diffvars, sidevars, roster_entries, points, leaderboard_cache,
                 rc, buttons, now, emitted>>

\* processAdoptionQueue: window gate, spacing gate, getNextAdoptionToPost
processAdoptionQueue ==
  /\ qc.pc = "adoption_queue"
  /\ \E fault \in {"none", "getNextAdoptionToPost"} :
       /\ MayFail(fault)
       /\ IF outsideBroadcastWindow(now) \/ ~isTimeForAdoptionQueuePost(state, now)
          THEN /\ fault = "none"
               /\ qc' = idleQc
               /\ hist' = hist
          ELSE IF fault # "none" THEN abortDrain
          ELSE \E petToPost \in getNextAdoptionToPost(discord_queue_items, pets) :
                  /\ qc' = IF petToPost = NoCandidate THEN idleQc
                           ELSE [qc EXCEPT !.pc = "adoption_post",
                                           !.petToPost = petToPost]
                  /\ hist' = hist
  /\ UNCHANGED <<diffvars, sidevars, dbvars, state, stateFile, rc, buttons, now, emitted>>

\* processAdoptionQueue: the announcement is sent to the channels; an error
\* of channels.fetch or channel.send is caught per channel and logged, and
\* the loop goes on ("send": it fails for every channel)
processAdoptionQueue_post ==
  /\ qc.pc = "adoption_post"
  /\ \E fault \in {"none", "getAdoptionPointsGlobal", "send"} :
       /\ MayFail(fault)
       /\ IF fault = "getAdoptionPointsGlobal"
          THEN /\ qc' = idleQc
               /\ hist' = Faulted
               /\ UNCHANGED emitted
          ELSE /\ emitted' = IF fault = "send" THEN emitted
                             ELSE Append(emitted, Emission(ADOPTION_LANE, qc.petToPost.pet_id))
               /\ qc' = [qc EXCEPT !.pc = "adoption_mark"]
               /\ hist' = HistAfter(fault)
  /\ UNCHANGED <<diffvars, sidevars, dbvars, state, stateFile, rc, buttons, now>>

\* processAdoptionQueue: the posted marks, the timing mark and its save
processAdoptionQueue_mark ==
  /\ qc.pc = "adoption_mark"
  /\ \E fault \in {"none", "markQueueItemPosted", "markPetAdoptedPosted", "save"} :
       /\ MayFail(fault)
       /\ discord_queue_items' =
            IF fault = "markQueueItemPosted" THEN discord_queue_items
            ELSE markQueueItemPosted(discord_queue_items, qc.petToPost.queue_id)
       /\ pets' = IF fault \in {"none", "save"}
                  THEN markPetAdoptedPosted(pets, qc.petToPost.pet_id) ELSE pets
       /\ state' = IF fault \in {"none", "save"}
                   THEN recordAdoptionQueuePost(state, now) ELSE state
       /\ stateFile' = save(state', stateFile, fault = "none")
       /\ hist' = HistAfter(fault)
  /\ qc' = idleQc
  /\ UNCHANGED <<diffvars, sidevars, roster_entries, points, leaderboard_cache,
                 rc, buttons, now, emitted>>

\* time passes
passTime ==
  /\ now + ClockStep <= MaxClock
  /\ now' = now + ClockStep
  /\ UNCHANGED <<diffvars, sidevars, dbvars, procvars, emitted, qc>>


\* ------------------------------------------------------------------------
\* Process crash and restart: the memory of the process is lost, an open
\* transaction is rolled back by the server, state.load() reads the file
\* ------------------------------------------------------------------------
crashRestart ==
  /\ hist.crashes < MaxCrashes
  /\ state' = load(stateFile)
  /\ rc' = idleRc
  /\ buttons' = {}
  /\ qc' = idleQc
  /\ rc2' = idleRc
  /\ qc2' = idleQc
  /\ cl' = idleCl
  /\ wr' = noWriters
  /\ hist' = [hist EXCEPT !.crashes = @ + 1]
  /\ UNCHANGED <<diffvars, dbvars, stateFile, now, emitted, ref>>

\* ------------------------------------------------------------------------
\* The running bot
\* ------------------------------------------------------------------------
Init ==
  /\ pets = <<>>
  /\ roster_entries = {}
  /\ points = <<>>
  /\ leaderboard_cache = {}
  /\ discord_queue_items = <<>>
  /\ state = load(NoFile)
  /\ stateFile = NoFile
  /\ rc = idleRc
  /\ buttons = {}
  /\ hist = [crashes |-> 0, faults |-> 0, interleaved |-> 0, drains |-> 0, aborts |-> 0,
          debugChannel |-> "ok", rejections |-> 0,
          newlyComplete |-> {}, again |-> {}, checksBefore |-> 0]
  /\ diffPrev = <<>>
  /\ diffCurr = <<>>
  /\ diffOut = NoDiff
  /\ now = 0
  /\ emitted = <<>>
  /\ qc = idleQc
  /\ rc2 = idleRc
  /\ qc2 = idleQc
  /\ cl = idleCl
  /\ wr = noWriters
  /\ ref = NULL

Next ==
  \/ runCheck
  \/ processAdoptions_lookup
  \/ processAdoptions_award
  \/ processAdoptions_finish
  \/ runCheck_queueAdoptions
  \/ runCheck_queueNewPets
  \/ runCheck_queueCompletedPets
  \/ runCheck_updateState
  \/ addpet
  \/ petLookup
  \/ draftButton
  \/ buttonExpires
  \/ ingestNew
  \/ ingestUpdate
  \/ ingestRemove
  \/ crashRestart

Spec == Init /\ [][Next]_vars

\* ------------------------------------------------------------------------
\* detectChanges on its own: every pair of bounded pet lists
\* ------------------------------------------------------------------------
\* Lists as getAllPets returns them (one row per pet, ordered by pet_id).
\* Pet 1 ranges over every status, name, photo and announced flag; the
\* pets after it over an incomplete, a complete and a removed row.
DiffFocusRows ==
  {<<>>} \cup {<<PetRow(1, st, nm, ph, ap, FALSE)>> :
                 st \in Statuses, nm \in Names, ph \in Photos, ap \in BOOLEAN}

DiffOtherRows(id) ==
  {<<>>,
   <<PetRow(id, "available", NULL, STOCK_PHOTO, FALSE, FALSE)>>,
   <<PetRow(id, "available", "Buddy", REAL_PHOTO, FALSE, FALSE)>>,
   <<PetRow(id, "removed", "Buddy", REAL_PHOTO, FALSE, FALSE)>>}

RECURSIVE DiffOtherLists(_)
DiffOtherLists(id) ==
  IF id > 1 + DiffOthers THEN {<<>>}
  ELSE {a \o b : a \in DiffOtherRows(id), b \in DiffOtherLists(id + 1)}

DiffLists == {a \o b : a \in DiffFocusRows, b \in DiffOtherLists(2)}

DiffInit ==
  /\ pets = <<>>
  /\ roster_entries = {}
  /\ points = <<>>
  /\ leaderboard_cache = {}
  /\ discord_queue_items = <<>>
  /\ state = freshState
  /\ stateFile = NoFile
  /\ rc = idleRc
  /\ buttons = {}
  /\ hist = [crashes |-> 0, faults |-> 0, interleaved |-> 0, drains |-> 0, aborts |-> 0,
          debugChannel |-> "ok", rejections |-> 0,
          newlyComplete |-> {}, again |-> {}, checksBefore |-> 0]
  /\ diffPrev \in DiffLists
  /\ diffCurr \in DiffLists
  /\ diffOut = NoDiff
  /\ now = 0
  /\ emitted = <<>>
  /\ qc = idleQc
  /\ rc2 = idleRc
  /\ qc2 = idleQc
  /\ cl = idleCl
  /\ wr = noWriters
  /\ ref = NULL

\* const changes = detectChanges(previousPets, currentPets)
applyDetectChanges ==
  /\ ~diffOut.applied
  /\ diffOut' = [applied |-> TRUE, changes |-> detectChanges(diffPrev, diffCurr)]
  /\ UNCHANGED <<dbvars, procvars, queuevars, sidevars, diffPrev, diffCurr>>

DiffNext == applyDetectChanges

DiffSpec == DiffInit /\ [][DiffNext]_vars

\* ------------------------------------------------------------------------
\* getBreedPoints on its own: every bounded breed_points table, every breed
\* ------------------------------------------------------------------------
Breeds == {"labrador", "mixed", "poodle"}
BreedValues == {0, 1, 3}
BreedTables == UNION {[d -> BreedValues] : d \in SUBSET Breeds}

BreedInit ==
  /\ diffPrev \in BreedTables
  /\ diffCurr \in Breeds \cup {NULL}
  /\ diffOut = NoDiff
  /\ pets = <<>>
  /\ roster_entries = {}
  /\ points = <<>>
  /\ leaderboard_cache = {}
  /\ discord_queue_items = <<>>
  /\ state = load(NoFile)
  /\ stateFile = NoFile
  /\ rc = idleRc
  /\ buttons = {}
  /\ hist = [crashes |-> 0, faults |-> 0, interleaved |-> 0, drains |-> 0, aborts |-> 0,
             debugChannel |-> "ok", rejections |-> 0,
             newlyComplete |-> {}, again |-> {}, checksBefore |-> 0]
  /\ now = 0
  /\ emitted = <<>>
  /\ qc = idleQc
  /\ rc2 = idleRc
  /\ qc2 = idleQc
  /\ cl = idleCl
  /\ wr = noWriters
  /\ ref = NULL

\* const breedPoints = await this.db.getBreedPoints(pet.breed)
applyGetBreedPoints ==
  /\ ~diffOut.applied
  /\ diffOut' = [applied |-> TRUE, changes |-> getBreedPoints(diffPrev, diffCurr)]
  /\ UNCHANGED <<dbvars, procvars, queuevars, sidevars, diffPrev, diffCurr>>

BreedNext == applyGetBreedPoints

BreedSpec == BreedInit /\ [][BreedNext]_vars

\* ------------------------------------------------------------------------
\* The queue drain on its own: processQueues over a stored backlog, with
\* the clock, removals by the ingestion, I/O faults and restarts
\* ------------------------------------------------------------------------
\* what has become of a queued pet since it was queued
QueueKinds == {"fresh", "removed", "nodate", "old"}

\* a pets row with its arrival date
ShelterRow(id, st, date, dp) ==
  [pet_id |-> id, status |-> st, name |-> "Buddy", photo_url |-> REAL_PHOTO,
   discord_available_posted |-> FALSE, discord_adopted_posted |-> dp,
   brought_to_shelter |-> date]

QueuePetRow(id, kind) ==
  CASE kind = "fresh" ->
         ShelterRow(id, "available", NewDate(StartClock - MINUTES_PER_DAY), FALSE)
    [] kind = "removed" ->
         ShelterRow(id, "removed", NewDate(StartClock - MINUTES_PER_DAY), TRUE)
    [] kind = "nodate" ->
         ShelterRow(id, "available", NullMark, FALSE)
    [] kind = "old" ->
         ShelterRow(id, "available",
                    NewDate(StartClock - freshnessDays * MINUTES_PER_DAY), FALSE)
    [] kind = "adopted" ->
         ShelterRow(id, "removed", NewDate(StartClock - MINUTES_PER_DAY), FALSE)

RECURSIVE KindSeqs(_)
KindSeqs(n) ==
  IF n = 0 THEN {<<>>}
  ELSE KindSeqs(n - 1) \cup
       {Append(q, k) : q \in {x \in KindSeqs(n - 1) : Len(x) = n - 1}, k \in QueueKinds}

\* a backlog of stale items longer than one drain examines, then a fresh one
Backlog == [i \in 1..(maxAttempts + 1) |-> IF i <= maxAttempts THEN "removed" ELSE "fresh"]

\* the pet lane of the channel, oldest first, followed by the adoption lane
QueueScenarios ==
  {q \o <<"adopted", "adopted">> : q \in KindSeqs(MaxQueued) \cup {Backlog}}

\* the first BatchSize items were queued by one statement, each later item
\* by a statement of its own
BatchSize == 2
queuedAtOf(id) == IF id <= BatchSize THEN 1 ELSE id

QueueItemOf(id, kind) ==
  IF kind = "adopted"
  THEN [queue_type |-> "adoption", pet_id |-> id, channel_id |-> NULL, posted |-> FALSE,
        queued_at |-> queuedAtOf(id)]
  ELSE [queue_type |-> "new_pet", pet_id |-> id, channel_id |-> "chan1", posted |-> FALSE,
        queued_at |-> queuedAtOf(id)]

QueueInit ==
  /\ \E sc \in QueueScenarios :
       /\ pets = [id \in 1..Len(sc) |-> QueuePetRow(id, sc[id])]
       /\ discord_queue_items = [id \in 1..Len(sc) |-> QueueItemOf(id, sc[id])]
  /\ roster_entries = {}
  /\ points = <<>>
  /\ leaderboard_cache = {}
  /\ state = load(NoFile)
  /\ stateFile = NoFile
  /\ rc = idleRc
  /\ buttons = {}
  /\ hist = [crashes |-> 0, faults |-> 0, interleaved |-> 0, drains |-> 0, aborts |-> 0,
          debugChannel |-> "ok", rejections |-> 0,
          newlyComplete |-> {}, again |-> {}, checksBefore |-> 0]
  /\ diffPrev = <<>>
  /\ diffCurr = <<>>
  /\ diffOut = NoDiff
  /\ now = StartClock
  /\ emitted = <<>>
  /\ qc = idleQc
  /\ rc2 = idleRc
  /\ qc2 = idleQc
  /\ cl = idleCl
  /\ wr = noWriters
  /\ ref = NULL

QueueNext ==
  \/ processQueues
  \/ processPetQueues
  \/ processPetQueues_lane
  \/ processPetQueues_intercept
  \/ processPetQueues_skip
  \/ processPetQueues_post
  \/ processPetQueues_mark
  \/ processAdoptionQueue
  \/ processAdoptionQueue_post
  \/ processAdoptionQueue_mark
  \/ passTime
  \/ crashRestart

QueueSpec == QueueInit /\ [][QueueNext]_vars

\* the event loop resumes a suspended drain once its awaited I/O settles
DrainStep ==
  \/ processPetQueues
  \/ processPetQueues_lane
  \/ processPetQueues_intercept
  \/ processPetQueues_skip
  \/ processPetQueues_post
  \/ processPetQueues_mark
  \/ processAdoptionQueue
  \/ processAdoptionQueue_post
  \/ processAdoptionQueue_mark

FairQueueSpec == QueueSpec /\ WF_vars(DrainStep)

\* ------------------------------------------------------------------------
\* Overlapping invocations.  Neither runCheck nor processQueues is guarded:
\* the interval timers, the startup triggers and !forcecheck start a new
\* invocation while an earlier one is suspended at an await.  rc and qc
\* hold the invocation the event loop is running, rc2 and qc2 the other one.
\* ------------------------------------------------------------------------
\* case 'forcecheck': await message.reply(...); await runCheck() -- while a
\* check cycle is suspended (the callback of the check timer does the same)
forcecheck ==
  /\ rc.pc # "idle"
  /\ rc2.pc = "idle"
  /\ rc2' = rc
  /\ rc' = idleRc
  /\ UNCHANGED <<diffvars, queuevars, dbvars, state, stateFile, buttons, hist, qc2, cl, ref, wr>>

\* the awaited I/O of the other check cycle settles: it is resumed
resumeOtherCheck ==
  /\ rc2.pc # "idle"
  /\ rc' = rc2
  /\ rc2' = rc
  /\ UNCHANGED <<diffvars, queuevars, dbvars, state, stateFile, buttons, hist, qc2, cl, ref, wr>>

\* the callback of the queue timer fires while a drain is suspended
queueTimerFires ==
  /\ qc.pc # "idle"
  /\ qc2.pc = "idle"
  /\ qc2' = qc
  /\ qc' = idleQc
  /\ UNCHANGED <<diffvars, dbvars, procvars, now, emitted, rc2, cl, ref, wr>>

\* the awaited I/O of the other drain settles: it is resumed
resumeOtherDrain ==
  /\ qc2.pc # "idle"
  /\ qc' = qc2
  /\ qc2' = qc
  /\ UNCHANGED <<diffvars, dbvars, procvars, now, emitted, rc2, cl, ref, wr>>

\* a check cycle run from start to end with no error and nothing in between
RECURSIVE awardClaims(_, _, _, _, _)
awardClaims(todo, recs, cache, petId, amount) ==
  IF todo = {} THEN [points |-> recs, leaderboard_cache |-> cache]
  ELSE LET e == CHOOSE x \in todo : TRUE
           inserted == awardPointsInTransaction(recs, e.user_id, e.league_id,
                                                petId, amount)
       IN awardClaims(todo \ {e}, inserted,
                      upsertCache(cache, e.user_id, e.league_id,
                                  sumPoints(inserted, e.user_id, e.league_id)),
                      petId, amount)

RECURSIVE adoptAll(_, _, _)
adoptAll(adopted, i, db) ==
  IF i > Len(adopted) THEN db
  ELSE LET petId == adopted[i].pet_id
           claims == getDraftedPetsForAdoption(db.roster_entries, db.pets, petId)
           awarded == awardClaims(claims, db.points, db.leaderboard_cache, petId,
                                  getBreedPoints(breed_points, BreedOf(petId)))
       IN adoptAll(adopted, i + 1,
                   IF claims = {} THEN db
                   ELSE [db EXCEPT
                           !.points = awarded.points,
                           !.leaderboard_cache = awarded.leaderboard_cache,
                           !.roster_entries =
                              removeFromRostersInTransaction(@, petId)])

uninterruptedCycle(db) ==
  LET currentPets == getAllPets(db.pets)
      changes == detectChanges(db.snapshot.pets, currentPets)
      seeded == [db EXCEPT !.snapshot = updatePets(@, currentPets)]
      db1 == IF Len(changes.adopted) = 0 THEN db
             ELSE LET a == adoptAll(changes.adopted, 1, db)
                  IN [a EXCEPT !.discord_queue_items =
                         queueAdoptions(a.pets, a.roster_entries, @)]
      db2 == IF Len(changes.newPets) = 0 THEN db1
             ELSE [db1 EXCEPT !.discord_queue_items =
                     queueForConfigs("new_pet", db1.pets, @, DOMAIN channelConfigs)]
      db3 == IF Len(changes.completedPets) = 0 THEN db2
             ELSE [db2 EXCEPT !.discord_queue_items =
                     queueForConfigs("completed_pet", db2.pets, @, DOMAIN channelConfigs)]
  IN IF isFirstRun(db.snapshot.pets, db.snapshot.totalChecks) THEN seeded
     ELSE [db3 EXCEPT !.snapshot = updatePets(@, currentPets)]

\* the stored data a cycle starts from
StoredData(table, roster, recs, cache, items, snapshot) ==
  [pets |-> table, roster_entries |-> roster, points |-> recs,
   leaderboard_cache |-> cache, discord_queue_items |-> items,
   snapshot |-> snapshot]

\* Snapshot of the last completed check and what the ingestion may have done
\* since: pet 1 (claimed by user 1, queued but never announced) removed,
\* pet 2 arrived complete, pet 3 completed.
OverlapSnapshot ==
  <<ShelterRow(1, "available", NewDate(StartClock - MINUTES_PER_DAY), FALSE),
    [ShelterRow(3, "available", NewDate(StartClock - MINUTES_PER_DAY), FALSE)
       EXCEPT !.name = NULL, !.photo_url = STOCK_PHOTO]>>

OverlapPets(removed1, arrived2, completed3) ==
  [id \in (IF arrived2 THEN {1, 2, 3} ELSE {1, 3}) |->
     IF id = 1 /\ removed1
     THEN ShelterRow(1, "removed", NewDate(StartClock - MINUTES_PER_DAY), FALSE)
     ELSE IF id = 3 /\ ~completed3 THEN OverlapSnapshot[2]
     ELSE ShelterRow(id, "available", NewDate(StartClock - MINUTES_PER_DAY), FALSE)]

OverlapInitOf(removed1, arrived2, completed3) ==
  /\ pets = OverlapPets(removed1, arrived2, completed3)
  /\ roster_entries = {[user_id |-> 1, league_id |-> "leagueX", pet_id |-> 1]}
  /\ points = <<>>
  /\ leaderboard_cache = {}
  /\ discord_queue_items = <<QueueItemOf(1, "fresh")>>
  /\ state = [freshState EXCEPT !.pets = OverlapSnapshot, !.totalChecks = 1]
  /\ stateFile = save(state, NoFile, TRUE)
  /\ rc = idleRc
  /\ buttons = {}
  /\ hist = [crashes |-> MaxCrashes, faults |-> MaxFaults, interleaved |-> 0, drains |-> 0, aborts |-> 0,
          debugChannel |-> "ok", rejections |-> 0,
          newlyComplete |-> {}, again |-> {}, checksBefore |-> 0]
  /\ diffPrev = <<>>
  /\ diffCurr = <<>>
  /\ diffOut = NoDiff
  /\ now = StartClock
  /\ emitted = <<>>
  /\ qc = idleQc
  /\ rc2 = idleRc
  /\ qc2 = idleQc
  /\ cl = idleCl
  /\ wr = noWriters
  /\ ref = uninterruptedCycle(uninterruptedCycle(
             StoredData(pets, roster_entries, points, leaderboard_cache,
                        discord_queue_items, state)))

OverlapInit ==
  \E removed1, arrived2, completed3 \in BOOLEAN :
    OverlapInitOf(removed1, arrived2, completed3)

SchedInit == OverlapInitOf(TRUE, TRUE, TRUE)

OverlapNext ==
  \/ runCheck
  \/ processAdoptions_lookup
  \/ processAdoptions_award
  \/ processAdoptions_finish
  \/ runCheck_queueAdoptions
  \/ runCheck_queueNewPets
  \/ runCheck_queueCompletedPets
  \/ runCheck_updateState
  \/ forcecheck
  \/ resumeOtherCheck

OverlapSpec == OverlapInit /\ [][OverlapNext]_vars

SchedNext ==
  \/ runCheck
  \/ processAdoptions_lookup
  \/ processAdoptions_award
  \/ processAdoptions_finish
  \/ runCheck_queueAdoptions
  \/ runCheck_queueNewPets
  \/ runCheck_queueCompletedPets
  \/ runCheck_updateState
  \/ forcecheck
  \/ resumeOtherCheck
  \/ processQueues
  \/ processPetQueues
  \/ processPetQueues_lane
  \/ processPetQueues_intercept
  \/ processPetQueues_skip
  \/ processPetQueues_post
  \/ processPetQueues_mark
  \/ processAdoptionQueue
  \/ processAdoptionQueue_post
  \/ processAdoptionQueue_mark
  \/ queueTimerFires
  \/ resumeOtherDrain

SchedSpec == SchedInit /\ [][SchedNext]_vars

\* ------------------------------------------------------------------------
\* Claim operations one await at a time: CommandHandler.draftPet (!addpet),
\* the draft button of a pet-lookup reply (bot.js), the draft button of a
\* queue announcement (QueueManager.setupPetDraftCollector) and the adopt
\* button of the filter carousel (FilterHandler.handleAdoptFlow).  Every
\* path reads the roster, answers the capacity test on what it read and
\* inserts after further awaits.
\* ------------------------------------------------------------------------
ButtonVias == {"lookup_button", "queue_button"}
LookupVias == {"addpet", "carousel"}

Reply(op, out) ==
  [user_id |-> op.user_id, pet_id |-> op.pet_id, via |-> op.via, out |-> out]

ClaimOp(u, leagueId, p, via, roster) ==
  [user_id |-> u, league_id |-> leagueId, pet_id |-> p, via |-> via,
   pc |-> "roster_read", roster |-> {r.pet_id : r \in roster}]

\* if (roster.length >= rosterLimit)
rosterIsFull(roster) == Cardinality(roster) >= ROSTER_LIMIT

\* the operation up to the answer of getUserRoster: capacity test, and for
\* the buttons the test of the user's own roster
claimRead ==
  \E u \in Users, c \in Channels, via \in LookupVias \cup ButtonVias,
     p \in DOMAIN pets \cup {0} :
    LET leagueId == channelConfigs[c]
        roster == getUserRoster(roster_entries, pets, u, leagueId)
        op == ClaimOp(u, leagueId, p, via, roster)
    IN /\ Cardinality(cl.ops) < MaxClaimOps
       /\ via \in ButtonVias =>
            [pet_id |-> p, channel_id |-> c, via |-> via] \in buttons
       /\ cl' = IF rosterIsFull(roster)
                THEN [cl EXCEPT !.last = Reply(op, "full")]
                ELSE IF via \in ButtonVias /\ p \in op.roster
                THEN [cl EXCEPT !.last = Reply(op, "already")]
                ELSE [ops |-> cl.ops \cup {op}, last |-> NoReply]
       /\ UNCHANGED <<diffvars, queuevars, dbvars, procvars, rc2, qc2, ref, wr>>

\* !addpet and the carousel's adopt button after getPetById: found, still
\* available, not on the roster read
claim_getPetById ==
  \E op \in cl.ops :
    /\ op.via \in LookupVias
    /\ op.pc = "roster_read"
    /\ LET out == IF op.pet_id \notin DOMAIN pets THEN "not_found"
                  ELSE IF pets[op.pet_id].status # "available" THEN "not_available"
                  ELSE IF op.pet_id \in op.roster THEN "already"
                  ELSE "go_on"
       IN cl' = IF out = "go_on"
                THEN [ops |-> (cl.ops \ {op}) \cup {[op EXCEPT !.pc = "insert"]},
                      last |-> NoReply]
                ELSE [ops |-> cl.ops \ {op}, last |-> Reply(op, out)]
    /\ UNCHANGED <<diffvars, queuevars, dbvars, procvars, rc2, qc2, ref, wr>>

\* a draft button after the count of the league's claims on the pet
button_draftCheck ==
  \E op \in cl.ops :
    /\ op.via \in ButtonVias
    /\ op.pc = "roster_read"
    /\ LET count == Cardinality({e \in roster_entries :
                        e.pet_id = op.pet_id /\ e.league_id = op.league_id})
       IN cl' = IF count > 0
                THEN [ops |-> cl.ops \ {op}, last |-> Reply(op, "taken")]
                ELSE [ops |-> (cl.ops \ {op}) \cup {[op EXCEPT !.pc = "insert"]},
                      last |-> NoReply]
    /\ UNCHANGED <<diffvars, queuevars, dbvars, procvars, rc2, qc2, ref, wr>>

\* db.draftPet and the confirmation; a button's collector is stopped
claimInsert ==
  \E op \in cl.ops :
    /\ op.pc = "insert"
    /\ roster_entries' = draftPet(roster_entries, op.user_id, op.league_id, op.pet_id)
    /\ cl' = [ops |-> cl.ops \ {op}, last |-> Reply(op, "drafted")]
    /\ buttons' = {b \in buttons : ~(b.pet_id = op.pet_id /\ b.via = op.via)}
    /\ UNCHANGED <<diffvars, queuevars, pets, points, leaderboard_cache,
                   discord_queue_items, state, stateFile, rc, hist, rc2, qc2, ref, wr>>

\* the ingestion marks a pet removed while claim operations are under way
\* (a pet nobody holds yet: the removal of a held pet changes no roster)
ingestRemove_unclaimed ==
  \E p \in DOMAIN pets :
    /\ pets[p].status = "available"
    /\ \A e \in roster_entries : e.pet_id # p
    /\ pets' = [pets EXCEPT ![p].status = "removed"]
    /\ UNCHANGED <<diffvars, queuevars, sidevars, roster_entries, points,
                   leaderboard_cache, discord_queue_items, procvars>>

\* user 1 holds held claims; NumPets further pets are available, unclaimed
\* and shown with live draft buttons of both kinds
ClaimInitOf(held) ==
  /\ pets = [id \in 1..(held + NumPets) |->
               ShelterRow(id, "available", NewDate(StartClock - MINUTES_PER_DAY), FALSE)]
  /\ roster_entries = {[user_id |-> 1, league_id |-> "leagueX", pet_id |-> id] :
                         id \in 1..held}
  /\ points = <<>>
  /\ leaderboard_cache = {}
  /\ discord_queue_items = <<>>
  /\ state = [freshState EXCEPT !.pets = getAllPets(pets), !.totalChecks = 1]
  /\ stateFile = save(state, NoFile, TRUE)
  /\ rc = idleRc
  /\ buttons = {[pet_id |-> id, channel_id |-> "chan1", via |-> via] :
                  id \in (held + 1)..(held + NumPets), via \in ButtonVias}
  /\ hist = [crashes |-> 0, faults |-> 0, interleaved |-> 0, drains |-> 0, aborts |-> 0,
          debugChannel |-> "ok", rejections |-> 0,
          newlyComplete |-> {}, again |-> {}, checksBefore |-> 0]
  /\ diffPrev = <<>>
  /\ diffCurr = <<>>
  /\ diffOut = NoDiff
  /\ now = StartClock
  /\ emitted = <<>>
  /\ qc = idleQc
  /\ rc2 = idleRc
  /\ qc2 = idleQc
  /\ cl = idleCl
  /\ wr = noWriters
  /\ ref = NULL

ClaimInit == \E held \in {ROSTER_LIMIT - 1, ROSTER_LIMIT} : ClaimInitOf(held)

ClaimNext ==
  \/ claimRead
  \/ claim_getPetById
  \/ button_draftCheck
  \/ claimInsert
  \/ ingestRemove_unclaimed

ClaimSpec == ClaimInit /\ [][ClaimNext]_vars

\* ------------------------------------------------------------------------
\* state.save() one file operation at a time: saveToFile builds the text,
\* fs.writeFile opens bot_state.json for writing, which empties it, then
\* writes the text.  The check cycle and the queue drain both save.
\* ------------------------------------------------------------------------
startWriter(st) == [pc |-> "open", text |-> JSON_stringify(st), dirty |-> FALSE]

\* runCheck: state.updatePets(currentPets), then state.save() is called
runCheck_save ==
  /\ wr["check"].pc = "idle"
  /\ state.totalChecks <= MaxChecks
  /\ state' = updatePets(state, getAllPets(pets))
  /\ wr' = [wr EXCEPT !["check"] = startWriter(state')]
  /\ UNCHANGED <<diffvars, queuevars, dbvars, stateFile, rc, buttons, hist,
                 rc2, qc2, cl, ref>>

\* the drain: state.recordPetQueuePost / recordAdoptionQueuePost, then
\* state.save() is called
drain_save ==
  \E lane \in Channels \cup {ADOPTION_LANE} :
    /\ wr["drain"].pc = "idle"
    /\ state' = IF lane = ADOPTION_LANE
                THEN recordAdoptionQueuePost(state, now)
                ELSE recordPetQueuePost(state, lane, now)
    /\ state' # state
    /\ wr' = [wr EXCEPT !["drain"] = startWriter(state')]
    /\ UNCHANGED <<diffvars, queuevars, dbvars, stateFile, rc, buttons, hist,
                   rc2, qc2, cl, ref>>

\* fs.writeFile opens the file with flag 'w': it is created or emptied
writeFile_open ==
  \E w \in Writers, ok \in BOOLEAN :
    /\ wr[w].pc = "open"
    /\ ~ok => hist.faults < MaxFaults
    /\ stateFile' = IF ok
                    THEN [exists |-> TRUE, content |-> wr[w].text, complete |-> FALSE]
                    ELSE stateFile
    /\ wr' = [wr EXCEPT ![w] = IF ok THEN [@ EXCEPT !.pc = "write"] ELSE idleWriter]
    /\ hist' = IF ok THEN hist ELSE Faulted
    /\ UNCHANGED <<diffvars, queuevars, dbvars, state, rc, buttons, rc2, qc2, cl, ref>>

\* fs.writeFile writes the text from offset 0 and closes.  A failed write
\* leaves what is there.  When the other save wrote the file after this one
\* opened it, the bytes of the two texts mix unless they have one length.
writeFile_write ==
  \E w \in Writers, ok \in BOOLEAN, mixed \in BOOLEAN :
    /\ wr[w].pc = "write"
    /\ ~ok => hist.faults < MaxFaults
    /\ mixed => ok /\ wr[w].dirty
    /\ stateFile' = IF ok
                    THEN [exists |-> TRUE, content |-> wr[w].text, complete |-> ~mixed]
                    ELSE stateFile
    /\ wr' = [o \in Writers |->
                IF o = w THEN idleWriter
                ELSE IF ok /\ wr[o].pc = "write" THEN [wr[o] EXCEPT !.dirty = TRUE]
                ELSE wr[o]]
    /\ hist' = IF ok THEN hist ELSE Faulted
    /\ UNCHANGED <<diffvars, queuevars, dbvars, state, rc, buttons, rc2, qc2, cl, ref>>

\* the clock advances by one posting interval
waitInterval ==
  /\ now + intervalMinutes <= MaxClock
  /\ now' = now + intervalMinutes
  /\ UNCHANGED <<diffvars, dbvars, procvars, sidevars, emitted, qc>>

\* a process whose one check cycle completed and was saved
SaveInit ==
  /\ pets = [id \in {1} |->
               ShelterRow(id, "available", NewDate(StartClock - MINUTES_PER_DAY), FALSE)]
  /\ roster_entries = {}
  /\ points = <<>>
  /\ leaderboard_cache = {}
  /\ discord_queue_items = <<>>
  /\ state = [freshState EXCEPT !.pets = getAllPets(pets), !.totalChecks = 1]
  /\ stateFile = save(state, NoFile, TRUE)
  /\ rc = idleRc
  /\ buttons = {}
  /\ hist = [crashes |-> 0, faults |-> 0, interleaved |-> 0, drains |-> 0, aborts |-> 0,
          debugChannel |-> "ok", rejections |-> 0,
          newlyComplete |-> {}, again |-> {}, checksBefore |-> 0]
  /\ diffPrev = <<>>
  /\ diffCurr = <<>>
  /\ diffOut = NoDiff
  /\ now = StartClock
  /\ emitted = <<>>
  /\ qc = idleQc
  /\ rc2 = idleRc
  /\ qc2 = idleQc
  /\ cl = idleCl
  /\ wr = noWriters
  /\ ref = NULL

SaveNext ==
  \/ ingestRemove
  \/ runCheck_save
  \/ drain_save
  \/ writeFile_open
  \/ writeFile_write
  \/ waitInterval
  \/ crashRestart

SaveSpec == SaveInit /\ [][SaveNext]_vars

\* ------------------------------------------------------------------------
\* Check cycles that fail and are run again by the next tick: no command,
\* no ingestion and no restart in between, so every cycle works on the
\* stored data the first one found.
\* ------------------------------------------------------------------------
\* Snapshot of the last completed check: pets 1 and 2, both claimed by user
\* 1, and pet 3 without name and photo
RetrySnapshot ==
  <<ShelterRow(1, "available", NewDate(StartClock - MINUTES_PER_DAY), FALSE),
    ShelterRow(2, "available", NewDate(StartClock - MINUTES_PER_DAY), FALSE),
    [ShelterRow(3, "available", NewDate(StartClock - MINUTES_PER_DAY), FALSE)
       EXCEPT !.name = NULL, !.photo_url = STOCK_PHOTO]>>

\* what the ingestion did since: pet 1 removed, pet 2 removed, pet 3
\* completed, pet 4 arrived
RetryPets(removed1, removed2, completed3, arrived4) ==
  [id \in (IF arrived4 THEN {1, 2, 3, 4} ELSE {1, 2, 3}) |->
     IF id = 3 /\ ~completed3 THEN RetrySnapshot[3]
     ELSE ShelterRow(id,
                     IF (id = 1 /\ removed1) \/ (id = 2 /\ removed2)
                     THEN "removed" ELSE "available",
                     NewDate(StartClock - MINUTES_PER_DAY), FALSE)]

\* the checks completed before the scenario starts
RetrySnapshotChecks == MaxChecks - 1

RetryInitWith(removed1, removed2, completed3, arrived4, debugChannel) ==
  /\ pets = RetryPets(removed1, removed2, completed3, arrived4)
  /\ roster_entries = {[user_id |-> 1, league_id |-> "leagueX", pet_id |-> id] :
                         id \in {1, 2}}
  /\ points = <<>>
  /\ leaderboard_cache = {}
  /\ discord_queue_items = <<QueueItemOf(1, "fresh")>>
  /\ state = [freshState EXCEPT !.pets = RetrySnapshot,
                                !.totalChecks = RetrySnapshotChecks]
  /\ stateFile = save(state, NoFile, TRUE)
  /\ rc = idleRc
  /\ buttons = {}
  /\ hist = [crashes |-> 0, faults |-> 0, interleaved |-> 0, drains |-> 0, aborts |-> 0,
          debugChannel |-> debugChannel, rejections |-> 0,
          newlyComplete |-> {}, again |-> {}, checksBefore |-> 0]
  /\ diffPrev = <<>>
  /\ diffCurr = <<>>
  /\ diffOut = NoDiff
  /\ now = StartClock
  /\ emitted = <<>>
  /\ qc = idleQc
  /\ rc2 = idleRc
  /\ qc2 = idleQc
  /\ cl = idleCl
  /\ wr = noWriters
  /\ ref = uninterruptedCycle(
             StoredData(pets, roster_entries, points, leaderboard_cache,
                        discord_queue_items, state))

RetryInitOf(removed1, removed2, completed3, arrived4) ==
  RetryInitWith(removed1, removed2, completed3, arrived4, "ok")

RetryInit ==
  \E removed1, removed2, completed3, arrived4 \in BOOLEAN :
    RetryInitOf(removed1, removed2, completed3, arrived4)

RetryNext ==
  \/ runCheck
  \/ processAdoptions_lookup
  \/ processAdoptions_award
  \/ processAdoptions_finish
  \/ runCheck_queueAdoptions
  \/ runCheck_queueNewPets
  \/ runCheck_queueCompletedPets
  \/ runCheck_updateState

RetrySpec == RetryInit /\ [][RetryNext]_vars

\* ------------------------------------------------------------------------
\* Both timers at work while storage calls, sends and saves fail, with the
\* debug channel not configured, reachable or failing
\* ------------------------------------------------------------------------
DebugChannels == {"unset", "ok", "fails"}

LogInit ==
  \E debugChannel \in DebugChannels, removed2 \in BOOLEAN :
    RetryInitWith(TRUE, removed2, TRUE, TRUE, debugChannel)

LogNext ==
  \/ runCheck
  \/ processAdoptions_lookup
  \/ processAdoptions_award
  \/ processAdoptions_finish
  \/ runCheck_queueAdoptions
  \/ runCheck_queueNewPets
  \/ runCheck_queueCompletedPets
  \/ runCheck_updateState
  \/ processQueues
  \/ processPetQueues
  \/ processPetQueues_lane
  \/ processPetQueues_intercept
  \/ processPetQueues_skip
  \/ processPetQueues_post
  \/ processPetQueues_mark
  \/ processAdoptionQueue
  \/ processAdoptionQueue_post
  \/ processAdoptionQueue_mark

LogSpec == LogInit /\ [][LogNext]_vars

\* ------------------------------------------------------------------------
\* Completion detector: check cycles, ingestion updates and drains after a
\* completed check that saw pet 1 without name and photo.  Pet 2 arrived
\* since; the ingestion completes pet 1 at some moment.
\* ------------------------------------------------------------------------
DetectSnapshot ==
  <<[ShelterRow(1, "available", NewDate(StartClock - MINUTES_PER_DAY), FALSE)
       EXCEPT !.name = NULL, !.photo_url = STOCK_PHOTO]>>

\* the checks completed before the scenario starts
DetectSnapshotChecks == MaxChecks - 1

DetectInit ==
  /\ pets = [id \in {1, 2} |->
               IF id = 1 THEN DetectSnapshot[1]
               ELSE ShelterRow(2, "available", NewDate(StartClock - MINUTES_PER_DAY), FALSE)]
  /\ roster_entries = {}
  /\ points = <<>>
  /\ leaderboard_cache = {}
  /\ discord_queue_items = <<>>
  /\ state = [freshState EXCEPT !.pets = DetectSnapshot,
                                !.totalChecks = DetectSnapshotChecks]
  /\ stateFile = save(state, NoFile, TRUE)
  /\ rc = idleRc
  /\ buttons = {}
  /\ hist = [crashes |-> 0, faults |-> 0, interleaved |-> 0, drains |-> 0, aborts |-> 0,
             debugChannel |-> "ok", rejections |-> 0,
             newlyComplete |-> {}, again |-> {}, checksBefore |-> DetectSnapshotChecks]
  /\ diffPrev = <<>>
  /\ diffCurr = <<>>
  /\ diffOut = NoDiff
  /\ now = StartClock
  /\ emitted = <<>>
  /\ qc = idleQc
  /\ rc2 = idleRc
  /\ qc2 = idleQc
  /\ cl = idleCl
  /\ wr = noWriters
  /\ ref = NULL

DetectNext ==
  \/ runCheck
  \/ runCheck_queueNewPets
  \/ runCheck_queueCompletedPets
  \/ runCheck_updateState
  \/ ingestUpdate
  \/ processQueues
  \/ processPetQueues
  \/ processPetQueues_lane
  \/ processPetQueues_intercept
  \/ processPetQueues_post
  \/ processPetQueues_mark
  \/ processAdoptionQueue
  \/ passTime

DetectSpec == DetectInit /\ [][DetectNext]_vars

\* ------------------------------------------------------------------------
\* Awards of a pet with several claims: pets 1 and 2 were available at the
\* last completed check and are removed now; each is claimed by some of the
\* users of AwardUsers in leagueX.
\* ------------------------------------------------------------------------
AwardUsers == {1, 2}

AwardSnapshot ==
  <<ShelterRow(1, "available", NewDate(StartClock - MINUTES_PER_DAY), FALSE),
    ShelterRow(2, "available", NewDate(StartClock - MINUTES_PER_DAY), FALSE)>>

AwardInit ==
  /\ pets = [id \in {1, 2} |->
               ShelterRow(id, "removed", NewDate(StartClock - MINUTES_PER_DAY), FALSE)]
  /\ \E claimants1 \in SUBSET AwardUsers, claimants2 \in SUBSET AwardUsers :
       roster_entries =
         {[user_id |-> u, league_id |-> "leagueX", pet_id |-> 1] : u \in claimants1}
           \cup {[user_id |-> u, league_id |-> "leagueX", pet_id |-> 2] : u \in claimants2}
  /\ points = <<>>
  /\ leaderboard_cache = {}
  /\ discord_queue_items = <<>>
  /\ state = [freshState EXCEPT !.pets = AwardSnapshot, !.totalChecks = 1]
  /\ stateFile = save(state, NoFile, TRUE)
  /\ rc = idleRc
  /\ buttons = {}
  /\ hist = [crashes |-> 0, faults |-> 0, interleaved |-> 0, drains |-> 0, aborts |-> 0,
             debugChannel |-> "ok", rejections |-> 0,
             newlyComplete |-> {}, again |-> {}, checksBefore |-> 1]
  /\ diffPrev = <<>>
  /\ diffCurr = <<>>
  /\ diffOut = NoDiff
  /\ now = StartClock
  /\ emitted = <<>>
  /\ qc = idleQc
  /\ rc2 = idleRc
  /\ qc2 = idleQc
  /\ cl = idleCl
  /\ wr = noWriters
  /\ ref = NULL

AwardNext ==
  \/ runCheck
  \/ processAdoptions_lookup
  \/ processAdoptions_award
  \/ processAdoptions_finish
  \/ runCheck_queueAdoptions
  \/ runCheck_updateState

AwardSpec == AwardInit /\ [][AwardNext]_vars

\* setInterval keeps starting checks and the event loop resumes a suspended
\* check once its awaited call settles
FairAwardSpec == AwardSpec /\ WF_vars(AwardNext)

\* ------------------------------------------------------------------------
\* Vocabulary of the properties
\* ------------------------------------------------------------------------
\* the row of a pet in a list that holds it
RowOf(list, id) == list[CHOOSE i \in 1..Len(list) : list[i].pet_id = id]

UsableName(nm) == nm # NULL /\ nm # ""
UsablePhoto(ph) == ph # NULL /\ ph # "" /\ ph # STOCK_PHOTO

\* the score records of a pet
RecordsOfPet(recs, p) == {n \in 1..Len(recs) : recs[n].pet_id = p}

\* the cached total of a pair; a pair without a row has no points
CacheTotal(cache, u, l) ==
  IF \E r \in cache : r.user_id = u /\ r.league_id = l
  THEN (CHOOSE r \in cache : r.user_id = u /\ r.league_id = l).total_points
  ELSE 0

\* a step of processAdoptions on the pet in hand (not one of the environment)
InAdoption == rc.pc \in {"adopt", "award", "finish"}
PetInHand == rc.changes.adopted[rc.i].pet_id
NoCrashStep == hist'.crashes = hist.crashes
FaultStep == hist'.faults # hist.faults
\* the step that ends the pet's transaction and records its result
EndsPet == InAdoption /\ Len(rc'.results) = Len(rc.results) + 1
LastResult == rc'.results[Len(rc'.results)]
\* the transaction of the pet in hand ends without COMMIT taking effect
EndsInRollback ==
  /\ InAdoption
  /\ rc' # rc
  /\ rc'.pc \notin {"award", "finish"} \/ rc'.i # rc.i
  /\ rc.tx = "aborted" \/ FaultStep \/ ~NoCrashStep
\* a check cycle ends by storing its snapshot
CycleCompletes == NoCrashStep /\ state'.totalChecks = state.totalChecks + 1

\* the pets table row passes the WHERE clause of queueAdoptions, its
\* NOT EXISTS guard left aside
AdoptionCandidate(p) ==
  /\ p \in DOMAIN pets
  /\ pets[p].status = "removed"
  /\ pets[p].discord_adopted_posted = FALSE
  /\ \/ (pets[p].name # NULL /\ pets[p].photo_url # NULL
                             /\ pets[p].photo_url # STOCK_PHOTO)
     \/ \E e \in roster_entries : e.pet_id = p

ClaimsOn(p) == {e \in roster_entries : e.pet_id = p}

\* ------------------------------------------------------------------------
\* Properties of the award pipeline (Spec)
\* ------------------------------------------------------------------------

\* C1: over check cycles, aborted cycles and crashes followed by restart,
\* the points table never holds two score records of the same claim
\* (user, league, pet).
C1_AtMostOneRecordPerClaim ==
  \A i, j \in 1..Len(points) :
    i < j => ~(/\ points[i].user_id = points[j].user_id
               /\ points[i].league_id = points[j].league_id
               /\ points[i].pet_id = points[j].pet_id)

\* C2: processAdoptions called again for a removed pet whose earlier
\* transaction committed its score records and deleted its claims inserts
\* no score record, leaves the leaderboard cache and the rosters unchanged,
\* and returns for the pet an empty award list and no error.
C2_SecondCallIsNoOp ==
  [][(/\ rc.pc = "adopt"
      /\ rc' # rc
      /\ NoCrashStep
      /\ ~FaultStep
      /\ RecordsOfPet(points, PetInHand) # {}
      /\ ClaimsOn(PetInHand) = {})
     => (/\ EndsPet
         /\ LastResult.pet_id = PetInHand
         /\ LastResult.pointsAwarded = {}
         /\ LastResult.failedAwards = {}
         /\ ~LastResult.error
         /\ points' = points
         /\ leaderboard_cache' = leaderboard_cache
         /\ roster_entries' = roster_entries)]_vars

\* a second call has returned: the pet has score records of an earlier
\* call, and this call's result for it is empty and without error
C2_Witness ==
  /\ hist.interleaved = 0
  /\ \E k \in 1..Len(rc.results) :
       /\ rc.results[k].pointsAwarded = {}
       /\ ~rc.results[k].error
       /\ RecordsOfPet(points, rc.results[k].pet_id) # {}
       /\ ClaimsOn(rc.results[k].pet_id) = {}

\* C3: when a pet's award transaction ends in rollback, none of its score
\* records, cache updates and claim deletions is visible afterwards; this
\* includes the claim deletion failing after the score insertion.
C3_RollbackLeavesNothing ==
  [][EndsInRollback
     => (/\ points' = points
         /\ leaderboard_cache' = leaderboard_cache
         /\ roster_entries' = roster_entries)]_vars

\* the claim deletion failed after the insertion: the result lists the
\* award, and the pet has no score record and keeps its claim
C3_Witness ==
  /\ hist.interleaved = 0
  /\ hist.faults = 1
  /\ \E k \in 1..Len(rc.results) :
       /\ rc.results[k].pointsAwarded # {}
       /\ ~rc.results[k].error
       /\ RecordsOfPet(points, rc.results[k].pet_id) = {}
       /\ ClaimsOn(rc.results[k].pet_id) # {}

\* C4: when the award transaction of one pet of the list fails and is
\* rolled back, the score records committed for the pets before it stay,
\* and processAdoptions goes on to the next pet of the list with a
\* transaction of its own (or returns, after the last pet).
C4_PerPetIsolation ==
  [][(EndsPet /\ (rc.tx = "aborted" \/ FaultStep))
     => (/\ Len(points') >= Len(points)
         /\ \A n \in 1..Len(points) : points'[n] = points[n]
         /\ IF rc.i < Len(rc.changes.adopted)
            THEN /\ rc'.pc = "adopt"
                 /\ rc'.i = rc.i + 1
                 /\ rc'.changes = rc.changes
                 /\ rc'.tx = "none"
                 /\ rc'.txPoints = <<>>
                 /\ rc'.txCache = {}
            ELSE rc'.pc = "queue_adoptions")]_vars

\* the first pet's transaction failed and the second pet was processed
\* and its award committed
C4_Witness ==
  /\ Len(rc.results) = 2
  /\ rc.results[1].error
  /\ RecordsOfPet(points, rc.results[1].pet_id) = {}
  /\ rc.results[2].pointsAwarded # {}
  /\ RecordsOfPet(points, rc.results[2].pet_id) # {}

\* C5: between check cycles, for every (user, league) the total of the
\* leaderboard cache is the sum of the pair's score records, also after a
\* cycle in which an award step failed and was caught.
C5_CacheMatchesSum ==
  rc.pc = "idle" =>
    \A u \in Users, l \in Leagues :
      CacheTotal(leaderboard_cache, u, l) = sumPoints(points, u, l)

\* a completed cycle that awarded one pet and failed on the other, whose
\* claim is still there
C5_Witness ==
  /\ rc.pc = "idle"
  /\ state.totalChecks = 2
  /\ stateFile.content = state
  /\ hist.faults = 1
  /\ hist.crashes = 0
  /\ hist.interleaved = 0
  /\ \E u \in Users, l \in Leagues :
       /\ sumPoints(points, u, l) > 0
       /\ CacheTotal(leaderboard_cache, u, l) = sumPoints(points, u, l)
  /\ \E e \in roster_entries :
       /\ e.pet_id \in DOMAIN pets
       /\ pets[e.pet_id].status = "removed"
       /\ RecordsOfPet(points, e.pet_id) = {}

\* C6: when a check cycle completes without error, no claim references a
\* pet that the cycle saw as removed, whatever ingestion, claim actions,
\* first-run seeding and restarts came before.
C6_NoClaimOutlivesRemoval ==
  [][(CycleCompletes /\ ~FaultStep /\ hist.faults = 0)
     => \A e \in roster_entries' :
          \A k \in 1..Len(state'.pets) :
            state'.pets[k].pet_id = e.pet_id
              => state'.pets[k].status # "removed"]_vars

\* C9: runCheck with an empty previous snapshot and totalChecks = 0 makes
\* no award and enqueues nothing, whatever the pets table holds; it ends
\* with the snapshot equal to the current list and totalChecks = 1.
C9_FirstRunSuppression ==
  [][(/\ rc.pc = "idle"
      /\ NoCrashStep
      /\ state.pets = <<>>
      /\ state.totalChecks = 0
      /\ (rc' # rc \/ state' # state))
     => (/\ points' = points
         /\ leaderboard_cache' = leaderboard_cache
         /\ roster_entries' = roster_entries
         /\ discord_queue_items' = discord_queue_items
         /\ rc'.pc = "idle"
         /\ state'.pets = getAllPets(pets)
         /\ state'.totalChecks = 1)]_vars

\* the first run met a removed pet with a claim and an available pet:
\* nothing was awarded or enqueued, the snapshot is the current list
C9_Witness ==
  /\ rc.pc = "idle"
  /\ state.totalChecks = 1
  /\ Len(state.pets) = NumPets
  /\ state.pets = getAllPets(pets)
  /\ points = <<>>
  /\ discord_queue_items = <<>>
  /\ \E e \in roster_entries : pets[e.pet_id].status = "removed"
  /\ \E p \in DOMAIN pets : pets[p].status = "available"

\* C10: over the enqueue statements of successive check cycles there is
\* at most one queue item per (kind, pet, channel), the adoption kind with
\* its NULL channel included.
C10_QueueDedup ==
  \A i, j \in 1..Len(discord_queue_items) :
    i < j => ~(/\ discord_queue_items[i].queue_type = discord_queue_items[j].queue_type
               /\ discord_queue_items[i].pet_id = discord_queue_items[j].pet_id
               /\ discord_queue_items[i].channel_id = discord_queue_items[j].channel_id)

\* queueAdoptions has just run over a pet whose adoption item an earlier
\* cycle had enqueued (the item precedes a new_pet item, and this cycle has
\* not yet enqueued its new pets)
C10_Witness ==
  /\ rc.pc = "queue_new"
  /\ Len(rc.changes.adopted) > 0
  /\ hist.interleaved = 0
  /\ \E i, j \in 1..Len(discord_queue_items) :
       /\ i < j
       /\ discord_queue_items[i].queue_type = "adoption"
       /\ discord_queue_items[j].queue_type = "new_pet"
       /\ AdoptionCandidate(discord_queue_items[i].pet_id)

\* ------------------------------------------------------------------------
\* Properties of detectChanges (DiffSpec)
\* ------------------------------------------------------------------------
DiffIds == IdsOf(diffPrev) \cup IdsOf(diffCurr)
InBoth(id) == id \in IdsOf(diffPrev) /\ id \in IdsOf(diffCurr)

\* the classification of the written contract, as sets of pet ids
SpecAdopted ==
  {id \in IdsOf(diffPrev) :
     /\ RowOf(diffPrev, id).status = "available"
     /\ id \in IdsOf(diffCurr)
     /\ RowOf(diffCurr, id).status = "removed"}

SpecNewPets ==
  {id \in IdsOf(diffCurr) :
     id \notin IdsOf(diffPrev) /\ RowOf(diffCurr, id).status = "available"}

SpecCompletedPets ==
  {id \in IdsOf(diffPrev) \cap IdsOf(diffCurr) :
     /\ RowOf(diffCurr, id).status = "available"
     /\ RowOf(diffCurr, id).discord_available_posted = FALSE
     /\ ~UsableName(RowOf(diffPrev, id).name)
     /\ ~UsablePhoto(RowOf(diffPrev, id).photo_url)
     /\ UsableName(RowOf(diffCurr, id).name)
     /\ UsablePhoto(RowOf(diffCurr, id).photo_url)}

\* every row of a result list is the pet's row of the current list, once
CurrentRowsOnce(list) ==
  /\ Len(list) = Cardinality(IdsOf(list))
  /\ \A n \in 1..Len(list) :
       list[n].pet_id \in IdsOf(diffCurr) /\ list[n] = RowOf(diffCurr, list[n].pet_id)

\* C7: for every pair of lists detectChanges places each pet in at most
\* one of adopted, newPets and completedPets, and a pet whose status, name
\* and photo are the same in both lists in none.
C7_DiffDisjoint ==
  diffOut.applied =>
    LET A == IdsOf(diffOut.changes.adopted)
        N == IdsOf(diffOut.changes.newPets)
        C == IdsOf(diffOut.changes.completedPets)
    IN /\ A \cap N = {} /\ A \cap C = {} /\ N \cap C = {}
       /\ Len(diffOut.changes.adopted) = Cardinality(A)
       /\ Len(diffOut.changes.newPets) = Cardinality(N)
       /\ Len(diffOut.changes.completedPets) = Cardinality(C)
       /\ \A id \in DiffIds :
            (/\ InBoth(id)
             /\ RowOf(diffPrev, id).status = RowOf(diffCurr, id).status
             /\ RowOf(diffPrev, id).name = RowOf(diffCurr, id).name
             /\ RowOf(diffPrev, id).photo_url = RowOf(diffCurr, id).photo_url)
            => id \notin A \cup N \cup C

\* pet 1 is available and the same in both lists and is placed nowhere,
\* while another pet is adopted
C7_Witness ==
  /\ diffOut.applied
  /\ InBoth(1)
  /\ RowOf(diffPrev, 1) = RowOf(diffCurr, 1)
  /\ RowOf(diffCurr, 1).status = "available"
  /\ Len(diffOut.changes.adopted) = 1
  /\ 1 \notin IdsOf(diffOut.changes.adopted)

\* C8: for every pair of lists, adopted is the pets available in previous
\* and removed in current (never a pet absent from current), newPets the
\* pets of current absent from previous and available, completedPets the
\* pets of both, available and not announced in current, whose previous row
\* lacked a usable name and a usable photo and whose current row has both.
C8_DiffClassification ==
  diffOut.applied =>
    /\ IdsOf(diffOut.changes.adopted) = SpecAdopted
    /\ IdsOf(diffOut.changes.newPets) = SpecNewPets
    /\ IdsOf(diffOut.changes.completedPets) = SpecCompletedPets
    /\ CurrentRowsOnce(diffOut.changes.adopted)
    /\ CurrentRowsOnce(diffOut.changes.newPets)
    /\ CurrentRowsOnce(diffOut.changes.completedPets)

\* pet 1 went from no name and the stock photo to complete, and a pet that
\* was available vanished from the current list without being adopted
C8_Witness ==
  /\ diffOut.applied
  /\ IdsOf(diffOut.changes.completedPets) = {1}
  /\ RowOf(diffPrev, 1).photo_url = STOCK_PHOTO
  /\ \E id \in IdsOf(diffPrev) :
       id \notin IdsOf(diffCurr) /\ RowOf(diffPrev, id).status = "available"
  /\ diffOut.changes.adopted = <<>>

\* ------------------------------------------------------------------------
\* Claims about the announcement queue (QueueSpec)
\* ------------------------------------------------------------------------
\* the emissions of one lane, as positions of the log
EmissionsOn(lane) == {i \in 1..Len(emitted) : emitted[i].lane = lane}
Lanes == Channels \cup {ADOPTION_LANE}

\* C11 (spacing enforcement): any two emissions of one lane, a channel's pet
\* lane or the global adoption lane, are at least intervalMinutes apart,
\* over any sequence of drain cycles and across a restart.
C11_SpacingEnforced ==
  \A lane \in Lanes : \A i, j \in EmissionsOn(lane) :
    i < j => emitted[j].at - emitted[i].at >= intervalMinutes

\* the drain step at a broadcast-window gate: processPetQueues or
\* processAdoptionQueue resumes and tests the window
AtWindowGate == qc.pc \in {"pet_queues", "adoption_queue"} /\ qc' # qc /\ NoCrashStep

\* the oldest pet item of the channel is still queued and would pass validation
ValidPetPending(c) ==
  \E candidate \in getNextPetToPost(discord_queue_items, pets, c) :
     candidate # NoCandidate /\ validatePetForBroadcast(candidate, now)

NothingPosted == \A i \in 1..Len(discord_queue_items) : ~discord_queue_items[i].posted

InPetLane == qc.pc \in {"intercept", "skip", "post", "mark"}

\* the reasons for which a queued pet is no longer announced
FailsValidation(pet, t) ==
  \/ pet.status # "available"
  \/ pet.brought_to_shelter.kind = "null"
  \/ t - pet.brought_to_shelter.t >= freshnessDays * MINUTES_PER_DAY

\* a turn of the intercept loop that fetched a candidate
ExaminesCandidate ==
  /\ qc.pc = "intercept"
  /\ qc'.pc \in {"skip", "post"}

\* the consuming step of a candidate that failed validation
SkipStep == qc.pc = "skip" /\ qc'.pc = "intercept"

TwoChecksInProgress == rc.pc # "idle" /\ rc2.pc # "idle"
TwoDrainsInProgress == qc.pc # "idle" /\ qc2.pc # "idle"

\* C14 (no re-entrancy): at no time are two invocations of runCheck in
\* progress at once, nor two invocations of processQueues.
C14_NoReentrancy == ~TwoChecksInProgress /\ ~TwoDrainsInProgress

\* two sequences hold the same rows the same number of times
CountIn(seq, r) == Cardinality({i \in 1..Len(seq) : seq[i] = r})
SameRows(a, b) ==
  /\ Len(a) = Len(b)
  /\ \A i \in 1..Len(a) : CountIn(a, a[i]) = CountIn(b, a[i])

\* both check cycles have returned
BothCyclesDone ==
  /\ rc.pc = "idle"
  /\ rc2.pc = "idle"
  /\ state.totalChecks = ref.snapshot.totalChecks

AwardedTwice ==
  \E i, j \in 1..Len(points) :
    /\ i < j
    /\ points[i].user_id = points[j].user_id
    /\ points[i].league_id = points[j].league_id
    /\ points[i].pet_id = points[j].pet_id

\* C15 (manual trigger does not disrupt the timer): when a !forcecheck cycle
\* interleaves with a timer-driven cycle at their awaits, the score records,
\* the leaderboard cache, the claims and the queue items end up as if the
\* two cycles had run one after the other, and no claim is awarded twice.
C15_OverlapAsSequential ==
  /\ ~AwardedTwice
  /\ BothCyclesDone =>
       /\ SameRows(points, ref.points)
       /\ leaderboard_cache = ref.leaderboard_cache
       /\ roster_entries = ref.roster_entries
       /\ SameRows(discord_queue_items, ref.discord_queue_items)

\* ------------------------------------------------------------------------
\* Claim operations
\* ------------------------------------------------------------------------
ClaimsOf(u, leagueId) ==
  {e \in roster_entries : e.user_id = u /\ e.league_id = leagueId}

RosterWithinLimit ==
  \A u \in Users, leagueId \in Leagues :
    Cardinality(ClaimsOf(u, leagueId)) <= ROSTER_LIMIT

NewClaims == roster_entries' \ roster_entries

\* C16: for every user and league the number of claims never exceeds the
\* roster limit, whatever the interleaving of claim operations of the text
\* command, the two draft buttons and the filter carousel; a claim attempted
\* while the user holds ROSTER_LIMIT claims creates nothing, and the
\* operation that reads a full roster answers with the capacity error.
C16_CapacityLimit ==
  /\ []RosterWithinLimit
  /\ [][\A e \in NewClaims :
          Cardinality(ClaimsOf(e.user_id, e.league_id)) < ROSTER_LIMIT]_vars
  /\ [][\A u \in Users, leagueId \in Leagues :
          (cl'.ops = cl.ops /\ cl'.last # cl.last /\ cl'.last.user_id = u
             /\ Cardinality(ClaimsOf(u, leagueId)) >= ROSTER_LIMIT)
            => cl'.last.out = "full" /\ NewClaims = {}]_vars

\* a claim operation inserts an entry for a pet
CreatesClaimOn(p) == \E e \in NewClaims : e.pet_id = p

\* the reply of this step closes an operation on a pet whose stored status
\* is removed
RepliesOnRemoved ==
  /\ cl'.last # cl.last
  /\ cl'.last.pet_id \in DOMAIN pets
  /\ pets[cl'.last.pet_id].status = "removed"

\* C17: through every claim path a claim is created only for a pet whose
\* stored status is available when the claim is inserted, and a claim
\* operation on a removed pet answers with the not-available error and
\* creates nothing.
C17_StillAvailable ==
  /\ [][\A p \in DOMAIN pets :
          CreatesClaimOn(p) => pets[p].status = "available"]_vars
  /\ [][RepliesOnRemoved =>
          cl'.last.out \in {"not_available", "full"} /\ NewClaims = {}]_vars

\* ------------------------------------------------------------------------
\* The snapshot file
\* ------------------------------------------------------------------------
\* the process starts again and loads the file
Restarts == hist'.crashes = hist.crashes + 1

\* C18: a save interrupted by a crash, by a write error or by the save of
\* the other cycle leaves a file from which the next load returns a
\* complete snapshot that was saved: never part of one, and never the
\* empty first-run state in place of a snapshot that had been saved.
C18_AtomicSave ==
  [][Restarts =>
       /\ loadFromFile(stateFile)
       /\ state' = JSON_parse(stateFile.content)
       /\ state'.totalChecks >= 1]_vars

\* a fresh process: save of the state, then load of the file
RoundTrip(st) == load(save(st, NoFile, TRUE))

\* two timing marks or dates denote the same instant, or are both absent
SameInstant(a, b) == (a.kind = "null") = (b.kind = "null") /\ getTime(a) = getTime(b)

SameRow(a, b) ==
  /\ DOMAIN a = DOMAIN b
  /\ \A f \in DOMAIN a :
       IF f = "brought_to_shelter" THEN SameInstant(a[f], b[f]) ELSE a[f] = b[f]

SameEntityList(a, b) ==
  Len(a) = Len(b) /\ \A i \in 1..Len(a) : SameRow(a[i], b[i])

Instants == StartClock..(MaxClock + intervalMinutes)

\* C19: a save followed by a load in a fresh process restores the entity
\* list, the counter totalChecks and the timing marks of every lane; the
\* first-run test is false after the restart when a check cycle had
\* completed and been saved; detectChanges and the spacing gates decide
\* as they did before the restart, at every instant.
RestoredAs(restored, st) ==
  LET currentPets == getAllPets(pets)
  IN /\ SameEntityList(restored.pets, st.pets)
     /\ restored.totalChecks = st.totalChecks
     /\ \A c \in Channels : SameInstant(restored.petQueues[c], st.petQueues[c])
     /\ SameInstant(restored.adoptionQueueLastPost, st.adoptionQueueLastPost)
     /\ st.totalChecks >= 1 => ~isFirstRun(restored.pets, restored.totalChecks)
     /\ detectChanges(restored.pets, currentPets) = detectChanges(st.pets, currentPets)
     /\ \A t \in Instants :
          /\ isTimeForAdoptionQueuePost(restored, t) = isTimeForAdoptionQueuePost(st, t)
          /\ \A c \in Channels :
               isTimeForPetQueuePost(restored, c, t) = isTimeForPetQueuePost(st, c, t)

\* the file holds the completed save of the state in memory
SavedWhole == stateFile = save(state, NoFile, TRUE)

C19_RoundTrip ==
  /\ []RestoredAs(RoundTrip(state), state)
  /\ [][(Restarts /\ SavedWhole) => RestoredAs(state', state)]_vars

\* a process with two completed checks and a timing mark on each lane, one
\* gate closed at this instant and a removal not yet detected
C19_Witness ==
  /\ state.totalChecks >= 2
  /\ \A c \in Channels : state.petQueues[c].kind = "Date"
  /\ state.adoptionQueueLastPost.kind = "Date"
  /\ ~isTimeForAdoptionQueuePost(state, now)
  /\ \E c \in Channels : isTimeForPetQueuePost(state, c, now)
  /\ Len(state.pets) > 0
  /\ \E i \in 1..Len(state.pets) : pets[state.pets[i].pet_id].status # state.pets[i].status
  /\ SavedWhole
  /\ hist.crashes = 1
  /\ RoundTrip(state) # state

\* ------------------------------------------------------------------------
\* Aborted check cycles
\* ------------------------------------------------------------------------
\* the cycle ends here with an I/O error that reaches runCheck's catch
Aborts == hist'.aborts = hist.aborts + 1

\* every I/O error so far ended its cycle, and none occurs in this step:
\* the cycle in progress is free of errors
ErrorFreeSoFar == hist'.faults = hist.aborts

\* C20: a check cycle that aborts with an I/O error before its snapshot
\* update leaves the snapshot's entity list and totalChecks unchanged, and
\* the next error-free cycle over the same stored data ends with the score
\* records, claims and queue items of a single uninterrupted cycle (and with
\* its snapshot).
C20_AbortedCycleRetried ==
  /\ [][Aborts => /\ state'.pets = state.pets
                  /\ state'.totalChecks = state.totalChecks
                  /\ stateFile' = stateFile]_vars
  /\ [][(CycleCompletes /\ hist.aborts >= 1 /\ ErrorFreeSoFar
            /\ state.totalChecks = RetrySnapshotChecks) =>
          /\ SameRows(points', ref.points)
          /\ roster_entries' = ref.roster_entries
          /\ SameRows(discord_queue_items', ref.discord_queue_items)
          /\ state' = ref.snapshot]_vars

\* the retried cycle completed after an abort that came after pet 1's award
\* had been committed
C20_Witness ==
  /\ rc.pc = "idle"
  /\ hist.aborts = 1
  /\ hist.faults = 1
  /\ state.totalChecks = RetrySnapshotChecks + 1
  /\ Len(points) = 2
  /\ roster_entries = {}

\* ------------------------------------------------------------------------
\* Errors at the cycle boundary
\* ------------------------------------------------------------------------
\* an I/O error of a drain step ends the drain in processQueues' catch block
DrainAborts == FaultStep /\ qc.pc # "idle" /\ qc' = idleQc /\ rc' = rc

\* C21: runCheck and processQueues always return normally: no failure of a
\* storage call, of a transaction primitive, of a send, of the snapshot save
\* or of the error report rejects the promise of a cycle; the cycle that hit
\* the error is over and the next timer tick finds nothing in progress.
C21_LogAndContinue ==
  /\ [](hist.rejections = 0)
  /\ [][Aborts => rc'.pc = "idle" /\ hist'.rejections = hist.rejections]_vars
  /\ [][DrainAborts => hist'.rejections = hist.rejections]_vars

\* a check cycle completed after an earlier one had failed while the debug
\* channel could not be reached
C21_Witness ==
  /\ hist.debugChannel = "fails"
  /\ hist.aborts = 1
  /\ hist.rejections = 0
  /\ rc.pc = "idle"
  /\ state.totalChecks = RetrySnapshotChecks + 1

\* ------------------------------------------------------------------------
\* Enqueueing of new pets
\* ------------------------------------------------------------------------
HasNewPetItem(items, p, c) ==
  \E k \in 1..Len(items) :
    /\ items[k].queue_type = "new_pet"
    /\ items[k].pet_id = p
    /\ items[k].channel_id = c

\* the pets the cycle in progress classified as new
NewlySeen == {rc.changes.newPets[i].pet_id : i \in 1..Len(rc.changes.newPets)}

\* the cycle's enqueue call for new pets returns
EnqueuesNewPets == rc.pc = "queue_new" /\ rc'.pc \in {"queue_completed", "update_state"}

\* the stored row is available, not announced, has a name (possibly empty)
\* and a photo other than the stock photo (possibly none)
NewPetEligible(row) ==
  /\ row.status = "available"
  /\ ~row.discord_available_posted
  /\ row.name # NULL
  /\ row.photo_url # STOCK_PHOTO

\* C22: every pet that a check cycle classifies as new, also one without
\* name and photo, has a new_pet queue item for every configured channel
\* when that cycle completes.
C22_NewlySeenQueued ==
  [][(CycleCompletes /\ rc.pc = "update_state") =>
       \A p \in NewlySeen, c \in Channels :
         HasNewPetItem(discord_queue_items', p, c)]_vars

\* C22 as the code keeps it: when the cycle's enqueue call returns, a pet
\* classified as new has a new_pet item for every configured channel if its
\* stored row is then available, not announced, with a name that is not
\* NULL and a photo that is not the stock photo; a new pet whose row fails
\* that test gets no item; items are never taken away again.
C22_EligibleNewlySeenQueued ==
  /\ [][EnqueuesNewPets =>
          \A p \in NewlySeen, c \in Channels :
            /\ NewPetEligible(pets[p]) => HasNewPetItem(discord_queue_items', p, c)
            /\ (~NewPetEligible(pets[p]) /\ ~HasNewPetItem(discord_queue_items, p, c))
                 => ~HasNewPetItem(discord_queue_items', p, c)]_vars
  /\ [][\A p \in DOMAIN pets, c \in Channels :
          HasNewPetItem(discord_queue_items, p, c)
            => HasNewPetItem(discord_queue_items', p, c)]_vars

\* the enqueue call has returned: one new pet has its item, another one,
\* without name and photo, has none
C22_Witness ==
  /\ rc.pc = "update_state"
  /\ \E p \in NewlySeen, q \in NewlySeen, c \in Channels :
       /\ pets[p].name = NULL
       /\ pets[p].photo_url = STOCK_PHOTO
       /\ pets[p].status = "available"
       /\ ~HasNewPetItem(discord_queue_items, p, c)
       /\ NewPetEligible(pets[q])
       /\ HasNewPetItem(discord_queue_items, q, c)

\* ------------------------------------------------------------------------
\* the unposted adoption items of one pet
PendingAdoptionsOf(petId) ==
  {i \in DOMAIN discord_queue_items :
     /\ discord_queue_items[i].queue_type = "adoption"
     /\ discord_queue_items[i].pet_id = petId
     /\ ~discord_queue_items[i].posted}

\* no drain is between two of its steps
DrainAtRest == qc.pc = "idle"

\* C23 (at most once): no queue item is emitted twice, whatever fails and
\* wherever the process restarts; and once the adoption announcement of a
\* pet has been emitted and the drain is over, the pet's adopted-announced
\* flag is set and no adoption item of the pet is pending.
C23_EmittedAtMostOnce ==
  /\ \A i, j \in 1..Len(emitted) : i # j => emitted[i].item # emitted[j].item
  /\ DrainAtRest =>
       \A i \in EmissionsOn(ADOPTION_LANE) :
          /\ pets[emitted[i].pet_id].discord_adopted_posted
          /\ PendingAdoptionsOf(emitted[i].pet_id) = {}

\* ------------------------------------------------------------------------
\* a step that sends one announcement
EmitStep == Len(emitted') = Len(emitted) + 1

\* the queue item of the latest emission
LastEmittedItem == emitted[Len(emitted)].item

\* the unposted items of the lane of item i: same kind, same channel
UnpostedOfLane(i) ==
  {k \in DOMAIN discord_queue_items :
     /\ discord_queue_items[k].queue_type = discord_queue_items[i].queue_type
     /\ discord_queue_items[k].channel_id = discord_queue_items[i].channel_id
     /\ ~discord_queue_items[k].posted}

\* C24 (oldest first): when a drain emits an item, no unposted item of the
\* same lane was enqueued earlier; the emitted item is itself unposted at
\* that moment.  Items enqueued by one statement share their enqueue time,
\* and any of them may go first.
C24_OldestFirst ==
  [][EmitStep =>
       LET i == emitted'[Len(emitted')].item
       IN /\ i \in UnpostedOfLane(i)
          /\ \A k \in UnpostedOfLane(i) :
               discord_queue_items[k].queued_at >= discord_queue_items[i].queued_at]_vars

\* an item was emitted before an unposted item of its lane that sits
\* earlier in the table and was enqueued by the same statement, and the
\* lane also holds a later item
C24_Witness ==
  /\ emitted # <<>>
  /\ qc.pc \in {"mark", "adoption_mark"}
  /\ \E k \in UnpostedOfLane(LastEmittedItem) :
       /\ k < LastEmittedItem
       /\ discord_queue_items[k].queued_at = discord_queue_items[LastEmittedItem].queued_at

\* ------------------------------------------------------------------------
\* the positions of the pet items of the queue
PetItems ==
  {i \in DOMAIN discord_queue_items : discord_queue_items[i].queue_type \in PetLaneTypes}

\* what the emit protocol of a pet lane writes: the posted marks of the pet
\* items, the announced-available flags, the timing marks of the pet lanes
PetItemsPosted(items) == {i \in PetItems : items[i].posted}
AnnouncedAvailable(table) == {p \in DOMAIN table : table[p].discord_available_posted}
PetLaneMarks(st) == st.petQueues

\* the send of the pet in hand is attempted
SendStep == qc.pc = "post" /\ qc' # qc /\ NoCrashStep
\* the step after a successful send
MarkStep == qc.pc = "mark" /\ qc' # qc /\ NoCrashStep

\* C25 (emit protocol of a pet lane): outside the consuming of a candidate
\* that failed validation, a pet item is marked posted, a pet's
\* announced-available flag is set and a lane's timing mark is recorded only
\* in the step that follows the successful send of that item, and in that
\* order: the mark of the lane is recorded only if the flag is set, the
\* flag only if the item is marked.  A send that fails (channel not fetched
\* or message not sent) emits nothing and leaves item, flag, timing mark
\* and state file as they were.
C25_EmitProtocol ==
  /\ [][(/\ NoCrashStep
         /\ qc.pc # "skip"
         /\ \/ PetItemsPosted(discord_queue_items') # PetItemsPosted(discord_queue_items)
            \/ AnnouncedAvailable(pets') # AnnouncedAvailable(pets)
            \/ PetLaneMarks(state') # PetLaneMarks(state))
        => /\ MarkStep
           /\ emitted # <<>>
           /\ LastEmittedItem = qc.petToPost.queue_id
           /\ emitted[Len(emitted)].lane = qc.channelId]_vars
  /\ [][MarkStep =>
          /\ PetItemsPosted(discord_queue_items') \subseteq
               PetItemsPosted(discord_queue_items) \cup {qc.petToPost.queue_id}
          /\ AnnouncedAvailable(pets') \subseteq
               AnnouncedAvailable(pets) \cup {qc.petToPost.pet_id}
          /\ (AnnouncedAvailable(pets') # AnnouncedAvailable(pets)
                => discord_queue_items'[qc.petToPost.queue_id].posted)
          /\ (PetLaneMarks(state') # PetLaneMarks(state)
                => /\ pets'[qc.petToPost.pet_id].discord_available_posted
                   /\ PetLaneMarks(state') =
                        [PetLaneMarks(state) EXCEPT ![qc.channelId] = NewDate(now)])]_vars
  /\ [][(SendStep /\ emitted' = emitted) =>
          /\ FaultStep
          /\ discord_queue_items' = discord_queue_items
          /\ pets' = pets
          /\ state' = state
          /\ stateFile' = stateFile]_vars

\* the first drain found chan1 due with a valid pet, the send failed, and
\* the drain went on to the adoption lane with nothing emitted, nothing
\* marked and the lane still due
C25_Witness ==
  /\ hist.drains = 1
  /\ hist.faults = 1
  /\ qc.pc = "adoption_queue"
  /\ emitted = <<>>
  /\ NothingPosted
  /\ AnnouncedAvailable(pets) = {}
  /\ isTimeForPetQueuePost(state, "chan1", now)
  /\ isWithinBroadcastWindow(now)
  /\ ValidPetPending("chan1")

\* ------------------------------------------------------------------------
\* a check cycle starts and finds changes
CycleStarts == rc.pc = "idle" /\ rc'.pc # "idle"

\* C26 (one-way completion detector): over check cycles, ingestion updates
\* and drains, no pet is in completedPets of more than one completed check,
\* and no check that starts when the pet's announced-available flag is set
\* has the pet in completedPets.
C26_OneWayCompletion ==
  /\ [](hist.again = {})
  /\ [][CycleStarts =>
          \A p \in IdsOf(rc'.changes.completedPets) :
             ~pets[p].discord_available_posted]_vars

\* a check that found pet 1 newly complete stopped before the snapshot was
\* replaced, a drain announced pet 1, and the next check, with the old
\* snapshot still without name and photo, does not find it newly complete
C26_Witness ==
  /\ rc.pc # "idle"
  /\ pets[1].discord_available_posted
  /\ isNowComplete(pets[1])
  /\ RowOf(rc.currentPets, 1).discord_available_posted
  /\ isNowComplete(RowOf(rc.currentPets, 1))
  /\ wasIncomplete(RowOf(state.pets, 1))
  /\ 1 \notin IdsOf(rc.changes.completedPets)

\* ------------------------------------------------------------------------
\* C27 (score resolution): getBreedPoints returns the table's value for a
\* breed that has a row in breed_points, and 1 for a breed without a row
\* or for no breed.
C27_ScoreResolution ==
  diffOut.applied =>
    IF diffCurr \in DOMAIN diffPrev
    THEN diffOut.changes = diffPrev[diffCurr]
    ELSE diffOut.changes = 1

\* ------------------------------------------------------------------------
\* the score records of a claim in a points table
RecordsOf(recs, e) ==
  {n \in 1..Len(recs) : /\ recs[n].user_id = e.user_id
                        /\ recs[n].league_id = e.league_id
                        /\ recs[n].pet_id = e.pet_id}

\* the step that ends a pet's award transaction with COMMIT, nothing
\* rejected in the step itself
CommitStep == EndsPet /\ rc.pc = "finish" /\ ~FaultStep

\* C28 (per-claim failure isolation): when the award of a claim of a pet
\* failed, the pet's result reports that claim in failedAwards and not in
\* pointsAwarded, no claim fails but one whose own award was rejected, and
\* every other claim is in pointsAwarded with its score record committed.
C28_PerClaimIsolation ==
  [][(CommitStep /\ rc.failedAwards # {}) =>
       /\ LastResult.failedAwards = rc.failedAwards
       /\ LastResult.pointsAwarded \cap rc.failedAwards = {}
       /\ Cardinality(rc.failedAwards) <= hist.faults
       /\ \A e \in LastResult.pointsAwarded : RecordsOf(points', e) # {}]_vars

\* ------------------------------------------------------------------------
\* the step in which COMMIT of a pet's award transaction returns: after the
\* claim lookup when the pet has no claim, else after the award loop
CommitReturns == EndsPet /\ ~LastResult.error

\* a score record of the pet in hand became visible with the step
AwardCommitted ==
  \E n \in 1..Len(points') : n > Len(points) /\ points'[n].pet_id = PetInHand

RolledBackWithClaims(p) ==
  /\ \E n \in 1..Len(rc.results) : rc.results[n].pet_id = p /\ rc.results[n].error
  /\ ClaimsOn(p) # {}

\* every claim on pet p has been awarded: score records of p exist and no
\* claim on p is left
ClaimsAwarded(p) ==
  /\ ClaimsOn(p) = {}
  /\ \E n \in 1..Len(points) : points[n].pet_id = p

\* C30 (automatic retry): when the award transaction of a removed pet was
\* rolled back with its claims intact, and failures stop and checks keep
\* running, every claim on the pet is eventually awarded.
C30_AutomaticRetry ==
  \A p \in DOMAIN AwardSnapshot : RolledBackWithClaims(p) ~> ClaimsAwarded(p)

\* ------------------------------------------------------------------------
\* What a drain cycle writes
\* ------------------------------------------------------------------------
\* the drain records a timing mark and calls state.save()
DrainSaves == wr["drain"].pc = "idle" /\ wr'["drain"].pc = "open"

\* the drain's save lands: the file now holds the text it stringified
DrainPersists ==
  /\ wr["drain"].pc = "write"
  /\ wr'["drain"].pc = "idle"
  /\ hist' = hist
  /\ stateFile'.content = wr["drain"].text

\* every check cycle that was started has completed, save included, and
\* the process never restarted: state.pets is the list of the last one
LastCheckCompleted == wr["check"].pc = "idle" /\ hist.crashes = 0

\* C31: a drain cycle changes no claim, no score record, no leaderboard
\* cache row and neither the entity list nor the run counter of the
\* snapshot; and the snapshot a drain persists carries the entity list of
\* the last completed check cycle, also when its save interleaves with the
\* save of a check cycle.
C31_DrainFrame ==
  [][/\ DrainSaves =>
          /\ UNCHANGED <<roster_entries, points, leaderboard_cache>>
          /\ state'.pets = state.pets
          /\ state'.totalChecks = state.totalChecks
     /\ (DrainPersists /\ LastCheckCompleted) =>
          SameEntityList(stateFile'.content.pets, state.pets)]_vars

\* ------------------------------------------------------------------------
\* the score records that became visible with the step
NewRecords == {n \in 1..Len(points') : n > Len(points)}

\* score record n of the new table is the award of claim e
AwardOf(n, e) ==
  /\ points'[n].user_id = e.user_id
  /\ points'[n].league_id = e.league_id
  /\ points'[n].pet_id = e.pet_id

\* C32: when COMMIT of a pet's award transaction returns, the entries of
\* the returned pointsAwarded list are exactly the score records the
\* transaction stored for the pet: every listed award has its score
\* record, and every stored score record is listed.
C32_AwardListExact ==
  [][CommitStep =>
       /\ \A e \in LastResult.pointsAwarded : \E n \in NewRecords : AwardOf(n, e)
       /\ \A n \in NewRecords :
            /\ points'[n].pet_id = PetInHand
            /\ \E e \in LastResult.pointsAwarded : AwardOf(n, e)]_vars

\* ------------------------------------------------------------------------
\* the adoption announcement of queue item i of pet p reached a channel
AdoptionSent(i, p) ==
  \E n \in EmissionsOn(ADOPTION_LANE) : emitted[n].item = i /\ emitted[n].pet_id = p

\* C33: an adoption queue item is marked posted, and its pet's
\* adopted-announced flag is set, only if the adoption announcement was
\* sent to at least one channel; an item whose announcement reached no
\* channel stays pending.
C33_PostedOnlyIfSent ==
  \A i \in DOMAIN discord_queue_items :
    LET item == discord_queue_items[i]
    IN item.queue_type = "adoption" =>
         /\ item.posted => AdoptionSent(i, item.pet_id)
         /\ pets[item.pet_id].discord_adopted_posted => AdoptionSent(i, item.pet_id)

\* ------------------------------------------------------------------------
\* the check cycle in progress committed an award of removed pet p
AwardedInCycle(p) ==
  /\ \E n \in 1..Len(rc.results) :
       /\ rc.results[n].pet_id = p
       /\ rc.results[n].pointsAwarded # {}
       /\ ~rc.results[n].error
  /\ RecordsOfPet(points, p) # {}

\* pet p has an adoption queue item, posted or not
HasAdoptionItem(items, p) ==
  \E k \in 1..Len(items) : items[k].queue_type = "adoption" /\ items[k].pet_id = p

\* C34: when a check cycle that committed an award of a removed pet
\* completes, the pet has an adoption queue item, with or without a name
\* and a real photo, and although the award deleted its claims before
\* queueAdoptions ran.
C34_AwardedRemovalQueued ==
  [][CycleCompletes =>
       \A p \in DOMAIN pets : AwardedInCycle(p) => HasAdoptionItem(discord_queue_items', p)]_vars

\* ------------------------------------------------------------------------
\* the pets of the queue items of a kind that the step created
CreatedItemsOf(kind) ==
  {discord_queue_items'[k].pet_id :
     k \in {j \in 1..Len(discord_queue_items') :
              /\ j > Len(discord_queue_items)
              /\ discord_queue_items'[j].queue_type = kind}}

\* nothing failed, the process never restarted and no ingestion or command
\* fell between two steps of a check cycle
QuietSoFar ==
  /\ hist.interleaved = 0 /\ hist.faults = 0 /\ hist.crashes = 0
  /\ hist' = hist

\* C35: the queue items a check cycle creates refer only to pets of the
\* cycle's change-sets: a new-pet item to a pet in newPets, a completed
\* item to a pet in completedPets, an adoption item to a pet in adopted;
\* a pet seeded silently on the first run is not enqueued by a later cycle
\* that detects the change of another pet.
C35_OnlyChangeSetsQueued ==
  [][(rc.pc \in {"queue_adoptions", "queue_new", "queue_completed"} /\ QuietSoFar) =>
       /\ CreatedItemsOf("new_pet") \subseteq IdsOf(rc.changes.newPets)
       /\ CreatedItemsOf("completed_pet") \subseteq IdsOf(rc.changes.completedPets)
       /\ CreatedItemsOf("adoption") \subseteq IdsOf(rc.changes.adopted)]_vars

\* ------------------------------------------------------------------------
\* C36: a pet is announced as available at most once per channel: no
\* channel receives two available-type emissions, a 'new pet' and a
\* 'completed pet' one, for the same pet, and no pet is emitted to a
\* channel when its announced-available flag is already true.
C36_AnnouncedOncePerChannel ==
  [][(EmitStep /\ emitted'[Len(emitted')].lane \in Channels /\ QuietSoFar) =>
       LET e == emitted'[Len(emitted')]
       IN /\ ~\E n \in EmissionsOn(e.lane) : emitted[n].pet_id = e.pet_id
          /\ ~pets[e.pet_id].discord_available_posted]_vars

\* ------------------------------------------------------------------------
\* League exclusivity of claims
\* ------------------------------------------------------------------------
\* another member of the league, who claimed pet 1 with !addpet while the
\* draft buttons of the pets were live
OtherMember == NumUsers + 1

LeagueInitWith(liveButtons) ==
  /\ pets = [id \in PetIds |->
               ShelterRow(id, "available", NewDate(StartClock - MINUTES_PER_DAY), FALSE)]
  /\ roster_entries = draftPet({}, OtherMember, "leagueX", 1)
  /\ points = <<>>
  /\ leaderboard_cache = {}
  /\ discord_queue_items = <<>>
  /\ state = [freshState EXCEPT !.pets = getAllPets(pets), !.totalChecks = 1]
  /\ stateFile = save(state, NoFile, TRUE)
  /\ rc = idleRc
  /\ buttons = liveButtons
  /\ hist = [crashes |-> 0, faults |-> 0, interleaved |-> 0, drains |-> 0, aborts |-> 0,
          debugChannel |-> "ok", rejections |-> 0,
          newlyComplete |-> {}, again |-> {}, checksBefore |-> 0]
  /\ diffPrev = <<>>
  /\ diffCurr = <<>>
  /\ diffOut = NoDiff
  /\ now = StartClock
  /\ emitted = <<>>
  /\ qc = idleQc
  /\ rc2 = idleRc
  /\ qc2 = idleQc
  /\ cl = idleCl
  /\ wr = noWriters
  /\ ref = NULL

\* the draft buttons of every pet are live
LeagueInit ==
  LeagueInitWith({[pet_id |-> id, channel_id |-> "chan1", via |-> via] :
                    id \in PetIds, via \in ButtonVias})

LeagueNext ==
  \/ claimRead
  \/ claim_getPetById
  \/ button_draftCheck
  \/ claimInsert
  \/ ingestRemove_unclaimed

LeagueSpec == LeagueInit /\ [][LeagueNext]_vars

\* C37: within one league a pet is claimed by at most one user: no two
\* roster entries with the same league and pet and different users exist,
\* whatever the interleaving of the claim operations through the draft
\* buttons and the !addpet command.
C37_LeagueExclusive ==
  \A e1, e2 \in roster_entries :
    (e1.league_id = e2.league_id /\ e1.pet_id = e2.pet_id) => e1.user_id = e2.user_id

\* ------------------------------------------------------------------------
\* Claims made while the award transaction of the pet is open
\* ------------------------------------------------------------------------
\* no draft button is live: claims are made with !addpet
LateClaimInit == LeagueInitWith({})

LateClaimNext ==
  \/ claimRead
  \/ claim_getPetById
  \/ claimInsert
  \/ ingestRemove
  \/ runCheck
  \/ processAdoptions_lookup
  \/ processAdoptions_award
  \/ processAdoptions_finish
  \/ runCheck_queueAdoptions
  \/ runCheck_updateState

LateClaimSpec == LateClaimInit /\ [][LateClaimNext]_vars

\* the claims that the step deleted
DeletedClaims == roster_entries \ roster_entries'

\* C38: every claim deleted by the award ledger has been paid: when the
\* award transaction of a pet commits, each claim it deleted has a score
\* record inserted by that transaction, also when the claim was created
\* between the claim lookup and the deletion.
C38_DeletedClaimsPaid ==
  [][(InAdoption /\ NoCrashStep) =>
       \A e \in DeletedClaims : \E n \in NewRecords : AwardOf(n, e)]_vars

\* ------------------------------------------------------------------------
\* an available-type announcement of pet p was emitted to a channel
AvailableEmitted(log, p) ==
  \E n \in 1..Len(log) : log[n].lane \in Channels /\ log[n].pet_id = p

\* C39: a pet's announced-available flag is set only when an
\* available-type announcement of the pet was emitted to a channel;
\* consuming a queue item that failed re-validation does not set it.
C39_FlagOnlyIfEmitted ==
  [][QuietSoFar =>
       \A p \in DOMAIN pets :
         (~pets[p].discord_available_posted /\ pets'[p].discord_available_posted)
           => AvailableEmitted(emitted', p)]_vars

\* ------------------------------------------------------------------------
\* Queue progress
\* ------------------------------------------------------------------------
\* the interval timer keeps starting drain cycles, and the event loop
\* resumes a suspended drain once its awaited call settles
ProgressSpec == QueueSpec /\ WF_vars(DrainStep) /\ WF_vars(processQueues)

AdoptionItems ==
  {i \in DOMAIN discord_queue_items : discord_queue_items[i].queue_type = "adoption"}

\* adoption item i was queued before every other one
FirstAdoptionItem(i) ==
  /\ i \in AdoptionItems
  /\ \A j \in AdoptionItems \ {i} :
       discord_queue_items[i].queued_at < discord_queue_items[j].queued_at

\* no drain has run, and the first adoption item is pending
FirstAdoptionPending ==
  /\ hist.drains = 0
  /\ \E i \in AdoptionItems : FirstAdoptionItem(i) /\ ~discord_queue_items[i].posted

\* the announcement of the first adoption item reached a channel
FirstAdoptionSent ==
  \E i \in AdoptionItems :
    FirstAdoptionItem(i) /\ AdoptionSent(i, discord_queue_items[i].pet_id)

\* the drains stopped being due: the broadcast window closed, or the
\* process restarted
DrainsStopped == outsideBroadcastWindow(now) \/ hist.crashes > 0

\* C40 (queue progress): while drain cycles keep firing inside the
\* broadcast window, a pending queue item is eventually emitted (an
\* adoption item is never consumed by re-validation), whatever fails in
\* the drains before: the oldest adoption item is eventually announced.
C40_QueueProgress ==
  FirstAdoptionPending ~> (FirstAdoptionSent \/ DrainsStopped)

====
